---- MODULE Spec2Model ----
(***************************************************************************)
(* Escoba de 15: the rules engine of marianogappa/escoba.                  *)
(*                                                                         *)
(* The game state is the Go struct GameState (variable g, one field per    *)
(* struct field, the unexported deck included).  Every method of the Go    *)
(* code is an operator from a "world" [g, rng] to a world, where rng is    *)
(* the state of the process's random source: rand.Shuffle, rand.Intn and   *)
(* the iteration order of Go maps all draw from it.                        *)
(***************************************************************************)
EXTENDS Integers, Sequences, FiniteSets, TLC

VARIABLES
    g,        \* the *GameState built by New and mutated by RunAction
    rng,      \* state of the process's random source
    err,      \* the error returned by the last RunAction call ("" is nil)
    fnCard,   \* argument thrownCard of a direct findAllValidCombinations call
    fnTable,  \* argument tableCards of a direct findAllValidCombinations call
    fnResult  \* <<>> before the call, <<result>> after it

vars == <<g, rng, err, fnCard, fnTable, fnResult>>

(***************************************************************************)
(* Bounds of the model.                                                    *)
(***************************************************************************)
\* number of seeds the random source may start from
NumSeeds == 2
\* accepted actions a game takes from arbitrary submissions; the rest of the
\* game is played by the bot
MaxManualActions == 1
\* largest number of table cards an arbitrary submission declares as captured
MaxDeclared == 2
\* longest table of a direct findAllValidCombinations call
MaxTableLen == 4
\* captures of a set shared out in every way in a direct scoreSet call
SplitBits == 4
\* most escobas a player has made in the set of a direct scoreSet call
MaxSetEscobas == 1
\* number of states of the random source in which escobaNew is called
NumNewSeeds == 60

(***************************************************************************)
(* Cards and deck (deck.go).                                               *)
(***************************************************************************)
ORO == "oro"
COPA == "copa"
ESPADA == "espada"
BASTO == "basto"

Suits == <<ORO, COPA, ESPADA, BASTO>>
Numbers == <<1, 2, 3, 4, 5, 6, 7, 10, 11, 12>>

Card(suit, number) == [Suit |-> suit, Number |-> number]

AllCards == {Card(Suits[s], Numbers[n]) : s \in 1..4, n \in 1..10}

GetEscobaValue(c) == IF c.Number <= 7 THEN c.Number ELSE c.Number - 2

Range(s) == {s[i] : i \in 1..Len(s)}

\* F applied to the value of e, with e evaluated once.
Let(e, F(_)) == CHOOSE y \in {F(x) : x \in {e}} : TRUE

\* The random source: a linear congruential generator.
NextRng(r) == (r * 25173 + 13849) % 65536

\* rand.Intn(n) on the source in state r (already advanced).
Intn(r, n) == (r \div 256) % n

Swap(s, i, j) == [s EXCEPT ![i] = s[j], ![j] = s[i]]

\* One iteration of rand.Shuffle's loop: j := Intn(i+1); swap(i, j).
shuffleStep(st0, i) ==
    IF i <= 1 THEN st0
    ELSE Let(st0, LAMBDA st :
         Let(NextRng(st.rng), LAMBDA r1 :
             [cards |-> Swap(st.cards, i, Intn(r1, i) + 1), rng |-> r1]))

\* The loop from index i down, four iterations per unfolding.
RECURSIVE shuffleLoop(_, _)
shuffleLoop(st, i) ==
    IF i <= 1 THEN st
    ELSE Let(shuffleStep(shuffleStep(shuffleStep(shuffleStep(st, i), i - 1), i - 2), i - 3),
             LAMBDA st4 : shuffleLoop(st4, i - 4))

\* rand.Shuffle: for i := n-1; i > 0; i-- { j := Intn(i+1); swap(i, j) }
Shuffle(cards, i, r) == shuffleLoop([cards |-> cards, rng |-> r], i)

OrderedCards == [k \in 1..40 |-> Card(Suits[((k - 1) \div 10) + 1], Numbers[((k - 1) % 10) + 1])]

makeSpanishCards(r) == Shuffle(OrderedCards, 40, r)

newDeck(r) == makeSpanishCards(r)

Min(a, b) == IF a < b THEN a ELSE b

\* Mutant of dealHand: the dealt cards stay in the deck.
dealHand_KeepsDeck(cards) ==
    [hand |-> SubSeq(cards, 1, Min(3, Len(cards))), cards |-> cards]

\* Mutant of dealHand: a hand is four cards.
dealHand_FourCards(cards) ==
    LET n == Min(4, Len(cards))
    IN [hand |-> SubSeq(cards, 1, n), cards |-> SubSeq(cards, n + 1, Len(cards))]

\* deck.dealHand: up to three cards off the front of the deck.
dealHand(cards) ==
    LET n == Min(3, Len(cards))
    IN [hand |-> SubSeq(cards, 1, n), cards |-> SubSeq(cards, n + 1, Len(cards))]

(***************************************************************************)
(* Combination search (actions.go).                                        *)
(***************************************************************************)
RECURSIVE findCombinationsDFS(_, _, _, _)
RECURSIVE dfsLoop(_, _, _, _)

\* Mutant of dfsLoop: the recursion starts at i again, so a card is reused.
dfsLoop_Reuse(tableCards, targetSum, currentCombination, i) ==
    IF i > Len(tableCards) THEN <<>>
    ELSE findCombinationsDFS(tableCards, targetSum - GetEscobaValue(tableCards[i]),
                             Append(currentCombination, tableCards[i]), i)
         \o dfsLoop(tableCards, targetSum, currentCombination, i + 1)

\* The for loop of findCombinationsDFS, from index i on.
dfsLoop(tableCards, targetSum, currentCombination, i) ==
    IF i > Len(tableCards) THEN <<>>
    ELSE findCombinationsDFS(tableCards, targetSum - GetEscobaValue(tableCards[i]),
                             Append(currentCombination, tableCards[i]), i + 1)
         \o dfsLoop(tableCards, targetSum, currentCombination, i + 1)

\* Indices are 1-based here: startIndex 1 is Go's 0.
findCombinationsDFS(tableCards, targetSum, currentCombination, startIndex) ==
    IF targetSum = 0 THEN <<currentCombination>>
    ELSE IF targetSum < 0 \/ startIndex > Len(tableCards) THEN <<>>
    ELSE dfsLoop(tableCards, targetSum, currentCombination, startIndex)

findAllValidCombinations(thrownCard, tableCards) ==
    LET targetSum == 15
        thrownValue == GetEscobaValue(thrownCard)
    IN IF thrownValue >= targetSum THEN <<>>
       ELSE findCombinationsDFS(tableCards, targetSum - thrownValue, <<>>, 1)

RECURSIVE sumCards(_)
sumCards(cards) ==
    IF cards = <<>> THEN 0 ELSE GetEscobaValue(Head(cards)) + sumCards(Tail(cards))

(***************************************************************************)
(* Actions (actions.go).                                                   *)
(***************************************************************************)
THROW_CARD == "throw_card"

newActionThrowCard(card, capturedTableCards) ==
    [Name |-> THROW_CARD, Card |-> card, CapturedTableCards |-> capturedTableCards]

\* Index of the first element of s equal to c, 0 when there is none.
IndexOf(s, c) ==
    IF \E i \in 1..Len(s) : s[i] = c
    THEN CHOOSE i \in 1..Len(s) : s[i] = c /\ \A j \in 1..(i - 1) : s[j] /= c
    ELSE 0

RemoveAt(s, i) == SubSeq(s, 1, i - 1) \o SubSeq(s, i + 1, Len(s))

\* Mutant of allOnTable: a matched card is not removed from the copy.
allOnTable_NoConsume(captured, tableCopy) ==
    \A k \in 1..Len(captured) : IndexOf(tableCopy, captured[k]) /= 0

\* The loop over a.CapturedTableCards that consumes tableCopy.
RECURSIVE allOnTable(_, _)
allOnTable(captured, tableCopy) ==
    IF captured = <<>> THEN TRUE
    ELSE Let(IndexOf(tableCopy, Head(captured)), LAMBDA i :
             IF i = 0 THEN FALSE
             ELSE Let(RemoveAt(tableCopy, i), LAMBDA rest :
                      Let(Tail(captured), LAMBDA others : allOnTable(others, rest))))

\* Mutant of actualSum: the face numbers are added, not the capture values.
RECURSIVE actualSum_ByNumber(_)
actualSum_ByNumber(captured) ==
    IF captured = <<>> THEN 0 ELSE Head(captured).Number + actualSum_ByNumber(Tail(captured))

\* The loop of IsPossible that adds up the declared cards.
RECURSIVE actualSum(_)
actualSum(captured) ==
    IF captured = <<>> THEN 0 ELSE GetEscobaValue(Head(captured)) + actualSum(Tail(captured))

\* Mutant of IsPossible: the sum of the declared cards is not checked.
IsPossible_NoSumCheck(a, gs) ==
    LET hand == gs.Hands[gs.TurnPlayerID]
        hasCard == \E i \in 1..Len(hand) : hand[i] = a.Card
    IN IF ~hasCard THEN FALSE
       ELSE IF Len(a.CapturedTableCards) = 0
            THEN Len(findAllValidCombinations(a.Card, gs.TableCards)) = 0
       ELSE allOnTable(a.CapturedTableCards, gs.TableCards)

\* Mutant of IsPossible: the thrown card may be in either hand.
IsPossible_EitherHand(a, gs) ==
    LET hasCard == \E p \in DOMAIN gs.Hands :
                       \E i \in 1..Len(gs.Hands[p]) : gs.Hands[p][i] = a.Card
        expectedSum == 15 - GetEscobaValue(a.Card)
    IN IF ~hasCard THEN FALSE
       ELSE IF Len(a.CapturedTableCards) = 0
            THEN Len(findAllValidCombinations(a.Card, gs.TableCards)) = 0
       ELSE IF actualSum(a.CapturedTableCards) /= expectedSum THEN FALSE
       ELSE allOnTable(a.CapturedTableCards, gs.TableCards)

IsPossible(a, gs) ==
    LET hand == gs.Hands[gs.TurnPlayerID]
        hasCard == \E i \in 1..Len(hand) : hand[i] = a.Card
        expectedSum == 15 - GetEscobaValue(a.Card)
    IN IF ~hasCard THEN FALSE
       ELSE IF Len(a.CapturedTableCards) = 0
            THEN Len(findAllValidCombinations(a.Card, gs.TableCards)) = 0
       ELSE IF actualSum(a.CapturedTableCards) /= expectedSum THEN FALSE
       ELSE allOnTable(a.CapturedTableCards, gs.TableCards)

\* Mutant of YieldsTurn: the action keeps the turn.
YieldsTurn_Never(a, gs) == FALSE

YieldsTurn(a, gs) == TRUE

Rotate(s, k) == SubSeq(s, k + 1, Len(s)) \o SubSeq(s, 1, k)

\* Iteration of a Go map whose keys were inserted in the order of s: the
\* runtime starts at a random offset.
MapOrder(s, r) ==
    IF Len(s) = 0 THEN [cards |-> s, rng |-> r]
    ELSE Let(NextRng(r), LAMBDA r1 :
             [cards |-> Rotate(s, Intn(r1, Len(s))), rng |-> r1])

\* s without the elements of the set drop, order kept.
RECURSIVE Without(_, _)
Without(s, drop) ==
    IF s = <<>> THEN <<>>
    ELSE IF Head(s) \in drop THEN Without(Tail(s), drop)
    ELSE <<Head(s)>> \o Without(Tail(s), drop)

\* A Go map keeps one entry per key.
RECURSIVE Dedup(_)
Dedup(s) ==
    IF s = <<>> THEN <<>>
    ELSE Let(Without(Tail(s), {Head(s)}), LAMBDA rest : <<Head(s)>> \o Dedup(rest))

\* Mutant of removeCardsFromTable: nothing is deleted from the set.
removeCardsFromTable_Nothing(tableCards, toRemove, r) ==
    MapOrder(Dedup(tableCards), r)

removeCardsFromTable(tableCards, toRemove, r) ==
    Let(Without(Dedup(tableCards), Range(toRemove)), LAMBDA rest : MapOrder(rest, r))

\* Mutant of Run: every capture counts as an escoba.
Run_EscobaOnAnyCapture(a, w) ==
    LET gs == w.g
        playerID == gs.TurnPlayerID
        hand == gs.Hands[playerID]
        i == IndexOf(hand, a.Card)
        g1 == [gs EXCEPT !.Hands[playerID] = IF i = 0 THEN hand ELSE RemoveAt(hand, i)]
    IN IF Len(a.CapturedTableCards) > 0
       THEN LET cardsToCapture == Append(a.CapturedTableCards, a.Card)
                rest == removeCardsFromTable(g1.TableCards, cardsToCapture, w.rng)
            IN [g |-> [g1 EXCEPT !.Piles[playerID] = @ \o cardsToCapture,
                                 !.TableCards = rest.cards,
                                 !.LastCapturerPlayerID = playerID,
                                 !.Escobas[playerID] = @ + 1],
                rng |-> rest.rng]
       ELSE [g |-> [g1 EXCEPT !.TableCards = Append(@, a.Card)], rng |-> w.rng]

\* Mutant of Run: the thrown card of a capture is not added to the pile.
Run_PileWithoutThrownCard(a, w) ==
    LET playerID == w.g.TurnPlayerID
        hand == w.g.Hands[playerID]
        i == IndexOf(hand, a.Card)
    IN Let([w.g EXCEPT !.Hands[playerID] = IF i = 0 THEN hand ELSE RemoveAt(hand, i)],
           LAMBDA g1 :
       IF Len(a.CapturedTableCards) > 0
       THEN Let(Append(a.CapturedTableCards, a.Card), LAMBDA cardsToCapture :
            Let(removeCardsFromTable(g1.TableCards, cardsToCapture, w.rng), LAMBDA rest :
            Let([g1 EXCEPT !.Piles[playerID] = @ \o a.CapturedTableCards,
                           !.TableCards = rest.cards,
                           !.LastCapturerPlayerID = playerID],
                LAMBDA g2 :
                [g |-> IF Len(g2.TableCards) = 0 /\ Len(a.CapturedTableCards) > 0
                       THEN [g2 EXCEPT !.Escobas[playerID] = @ + 1]
                       ELSE g2,
                 rng |-> rest.rng])))
       ELSE [g |-> [g1 EXCEPT !.TableCards = Append(@, a.Card)], rng |-> w.rng])

\* Mutant of Run: a throw without capture also makes the mover the last
\* capturer.
Run_DiscardSetsCapturer(a, w) ==
    LET playerID == w.g.TurnPlayerID
        hand == w.g.Hands[playerID]
        i == IndexOf(hand, a.Card)
    IN Let([w.g EXCEPT !.Hands[playerID] = IF i = 0 THEN hand ELSE RemoveAt(hand, i)],
           LAMBDA g1 :
       IF Len(a.CapturedTableCards) > 0
       THEN Let(Append(a.CapturedTableCards, a.Card), LAMBDA cardsToCapture :
            Let(removeCardsFromTable(g1.TableCards, cardsToCapture, w.rng), LAMBDA rest :
            Let([g1 EXCEPT !.Piles[playerID] = @ \o cardsToCapture,
                           !.TableCards = rest.cards,
                           !.LastCapturerPlayerID = playerID],
                LAMBDA g2 :
                [g |-> IF Len(g2.TableCards) = 0 /\ Len(a.CapturedTableCards) > 0
                       THEN [g2 EXCEPT !.Escobas[playerID] = @ + 1]
                       ELSE g2,
                 rng |-> rest.rng])))
       ELSE [g |-> [g1 EXCEPT !.TableCards = Append(@, a.Card),
                              !.LastCapturerPlayerID = playerID],
             rng |-> w.rng])

\* ActionThrowCard.Run
Run(a, w) ==
    LET playerID == w.g.TurnPlayerID
        hand == w.g.Hands[playerID]
        i == IndexOf(hand, a.Card)
    IN Let([w.g EXCEPT !.Hands[playerID] = IF i = 0 THEN hand ELSE RemoveAt(hand, i)],
           LAMBDA g1 :
       IF Len(a.CapturedTableCards) > 0
       THEN Let(Append(a.CapturedTableCards, a.Card), LAMBDA cardsToCapture :
            Let(removeCardsFromTable(g1.TableCards, cardsToCapture, w.rng), LAMBDA rest :
            Let([g1 EXCEPT !.Piles[playerID] = @ \o cardsToCapture,
                           !.TableCards = rest.cards,
                           !.LastCapturerPlayerID = playerID],
                LAMBDA g2 :
                [g |-> IF Len(g2.TableCards) = 0 /\ Len(a.CapturedTableCards) > 0
                       THEN [g2 EXCEPT !.Escobas[playerID] = @ + 1]
                       ELSE g2,
                 rng |-> rest.rng])))
       ELSE [g |-> [g1 EXCEPT !.TableCards = Append(@, a.Card)], rng |-> w.rng])

(***************************************************************************)
(* JSON encoding of actions (SerializeAction).                            *)
(***************************************************************************)
SerializeCard(c) == [suit |-> c.Suit, number |-> c.Number]

SerializeAction(a) ==
    [name |-> a.Name,
     card |-> SerializeCard(a.Card),
     capturedTableCards |->
         [i \in 1..Len(a.CapturedTableCards) |-> SerializeCard(a.CapturedTableCards[i])]]

_serializeActions(as) ==
    Let(as, LAMBDA s : [i \in 1..Len(s) |-> SerializeAction(s[i])])

SerializeCards(cs) == [i \in 1..Len(cs) |-> SerializeCard(cs[i])]

\* Mutant of DeserializeCard: the suit is not read.
DeserializeCard_LosesSuit(j) == [Suit |-> ORO, Number |-> j.number]

\* json.Unmarshal into a Card, and into a []Card.
DeserializeCard(j) == [Suit |-> j.suit, Number |-> j.number]

DeserializeCards(js) == [i \in 1..Len(js) |-> DeserializeCard(js[i])]

errUnknownActionType == "unknown action type"

\* DeserializeAction: the action read from a document (a sequence of at most
\* one element, empty for nil) and the error.
DeserializeAction(bs) ==
    IF bs.name = THROW_CARD
    THEN [action |-> <<[Name |-> bs.name,
                        Card |-> DeserializeCard(bs.card),
                        CapturedTableCards |-> DeserializeCards(bs.capturedTableCards)]>>,
          err |-> ""]
    ELSE [action |-> <<>>, err |-> errUnknownActionType]

\* A map keyed by player id is a JSON object keyed by the decimal strings.
Itoa(p) == IF p = 0 THEN "0" ELSE "1"

Atoi(k) == IF k = "0" THEN 0 ELSE 1

MarshalMap(m, F(_)) == [k \in {Itoa(p) : p \in DOMAIN m} |-> F(m[Atoi(k)])]

UnmarshalMap(j, F(_)) == [p \in {Atoi(k) : k \in DOMAIN j} |-> F(j[Itoa(p)])]

\* json.Marshal of a *SetResult (nil is the empty sequence).
MarshalSetResult(sr) ==
    [i \in 1..Len(sr) |->
        [cardCounts |-> MarshalMap(sr[i].CardCounts, LAMBDA x : x),
         oroCardCounts |-> MarshalMap(sr[i].OroCardCounts, LAMBDA x : x),
         hasSieteDeOro |-> MarshalMap(sr[i].HasSieteDeOro, LAMBDA x : x),
         setentaScores |-> MarshalMap(sr[i].SetentaScores, LAMBDA x : x),
         pointsAwarded |-> MarshalMap(sr[i].PointsAwarded, LAMBDA x : x),
         escobasThisSet |-> MarshalMap(sr[i].EscobasThisSet, LAMBDA x : x)]]

UnmarshalSetResult(j) ==
    [i \in 1..Len(j) |->
        [CardCounts |-> UnmarshalMap(j[i].cardCounts, LAMBDA x : x),
         OroCardCounts |-> UnmarshalMap(j[i].oroCardCounts, LAMBDA x : x),
         HasSieteDeOro |-> UnmarshalMap(j[i].hasSieteDeOro, LAMBDA x : x),
         SetentaScores |-> UnmarshalMap(j[i].setentaScores, LAMBDA x : x),
         PointsAwarded |-> UnmarshalMap(j[i].pointsAwarded, LAMBDA x : x),
         EscobasThisSet |-> UnmarshalMap(j[i].escobasThisSet, LAMBDA x : x)]]

\* json.Marshal of a GameState (NewMessageHeresGameState, escobaNew and the
\* other entry points): every field with a key; deck is tagged "-".
MarshalGameState(gs) ==
    [roundTurnPlayerID |-> gs.RoundTurnPlayerID,
     roundNumber |-> gs.RoundNumber,
     turnPlayerID |-> gs.TurnPlayerID,
     hands |-> MarshalMap(gs.Hands, LAMBDA h : [cards |-> SerializeCards(h)]),
     tableCards |-> SerializeCards(gs.TableCards),
     piles |-> MarshalMap(gs.Piles, LAMBDA pile : SerializeCards(pile)),
     escobas |-> MarshalMap(gs.Escobas, LAMBDA x : x),
     scores |-> MarshalMap(gs.Scores, LAMBDA x : x),
     possibleActions |-> gs.PossibleActions,
     roundFinished |-> gs.RoundFinished,
     setFinished |-> gs.SetFinished,
     isEnded |-> gs.IsEnded,
     winnerPlayerID |-> gs.WinnerPlayerID,
     actions |-> gs.Actions,
     actionOwnerPlayerIDs |-> gs.ActionOwnerPlayerIDs,
     roundJustStarted |-> gs.RoundJustStarted,
     lastSetResults |-> MarshalSetResult(gs.LastSetResults),
     lastCapturerPlayerID |-> gs.LastCapturerPlayerID,
     setJustStarted |-> gs.SetJustStarted]

\* json.Unmarshal into a zero GameState (MessageHeresGameState.Deserialize):
\* no key sets deck, which stays nil and so holds no card.
UnmarshalGameState(j) ==
    [RoundTurnPlayerID |-> j.roundTurnPlayerID,
     RoundNumber |-> j.roundNumber,
     TurnPlayerID |-> j.turnPlayerID,
     Hands |-> UnmarshalMap(j.hands, LAMBDA h : DeserializeCards(h.cards)),
     TableCards |-> DeserializeCards(j.tableCards),
     Piles |-> UnmarshalMap(j.piles, LAMBDA pile : DeserializeCards(pile)),
     Escobas |-> UnmarshalMap(j.escobas, LAMBDA x : x),
     Scores |-> UnmarshalMap(j.scores, LAMBDA x : x),
     PossibleActions |-> j.possibleActions,
     RoundFinished |-> j.roundFinished,
     SetFinished |-> j.setFinished,
     IsEnded |-> j.isEnded,
     WinnerPlayerID |-> j.winnerPlayerID,
     Actions |-> j.actions,
     ActionOwnerPlayerIDs |-> j.actionOwnerPlayerIDs,
     RoundJustStarted |-> j.roundJustStarted,
     LastSetResults |-> UnmarshalSetResult(j.lastSetResults),
     LastCapturerPlayerID |-> j.lastCapturerPlayerID,
     SetJustStarted |-> j.setJustStarted,
     deck |-> <<>>]

(***************************************************************************)
(* The game state machine.                                                 *)
(***************************************************************************)
Players == {0, 1}

OpponentOf(playerID) == IF playerID = 0 THEN 1 ELSE 0

CurrentPlayerID(gs) == gs.TurnPlayerID

\* The actions of one hand card, one per combination.
CardActions(card, combinations) ==
    Let(combinations, LAMBDA cs :
        [k \in 1..Len(cs) |-> newActionThrowCard(card, cs[k])])

\* First loop of CalculatePossibleActions, over the hand from index i on.
RECURSIVE captureActions(_, _, _)
captureActions(hand, tableCards, i) ==
    IF i > Len(hand) THEN <<>>
    ELSE CardActions(hand[i], findAllValidCombinations(hand[i], tableCards))
         \o captureActions(hand, tableCards, i + 1)

\* Mutant of CalculatePossibleActions: the simple throws are always added.
CalculatePossibleActions_WithDiscards(gs) ==
    LET hand == gs.Hands[gs.TurnPlayerID]
    IN captureActions(hand, gs.TableCards, 1)
       \o [i \in 1..Len(hand) |-> newActionThrowCard(hand[i], <<>>)]

\* Mutant of CalculatePossibleActions: the second loop stops one card early.
CalculatePossibleActions_Short(gs) ==
    LET hand == gs.Hands[gs.TurnPlayerID]
        actions == captureActions(hand, gs.TableCards, 1)
    IN IF Len(actions) = 0
       THEN [i \in 1..(Len(hand) - 1) |-> newActionThrowCard(hand[i], <<>>)]
       ELSE actions

CalculatePossibleActions(gs) ==
    Let(gs.Hands[gs.TurnPlayerID], LAMBDA hand :
    Let(captureActions(hand, gs.TableCards, 1), LAMBDA actions :
        LET hasValidCombinations == Len(actions) > 0
        IN IF ~hasValidCombinations
           THEN [i \in 1..Len(hand) |-> newActionThrowCard(hand[i], <<>>)]
           ELSE actions))

\* Go maps as functions on the set of their keys.
MapGet(m, k, zero) == IF k \in DOMAIN m THEN m[k] ELSE zero
MapPut(m, k, v) == [x \in (DOMAIN m) \cup {k} |-> IF x = k THEN v ELSE m[x]]

RECURSIVE SumValues(_)
SumValues(m) ==
    IF DOMAIN m = {} THEN 0
    ELSE LET k == CHOOSE x \in DOMAIN m : TRUE
         IN m[k] + SumValues([x \in (DOMAIN m) \ {k} |-> m[x]])

\* The loop of calculateSetenta over the pile.
setentaStep(m0, pile, i) ==
    IF i > Len(pile) THEN m0
    ELSE Let(m0, LAMBDA m :
             LET card == pile[i]
                 value == GetEscobaValue(card)
             IN IF value <= 7 /\ (~MapGet(m.suitHasCard, card.Suit, FALSE)
                                   \/ value > MapGet(m.suitBest, card.Suit, 0))
                THEN [suitBest |-> MapPut(m.suitBest, card.Suit, value),
                      suitHasCard |-> MapPut(m.suitHasCard, card.Suit, TRUE)]
                ELSE m)

\* The loop over the pile from index i, four cards per unfolding.
RECURSIVE setentaLoop(_, _, _)
setentaLoop(pile, i, m) ==
    IF i > Len(pile) THEN m
    ELSE Let(setentaStep(setentaStep(setentaStep(setentaStep(m, pile, i), pile, i + 1),
                                     pile, i + 2), pile, i + 3),
             LAMBDA m4 : setentaLoop(pile, i + 4, m4))

\* Mutant of calculateSetenta: no requirement of a card in every suit.
calculateSetenta_AnySuits(gs, playerID) ==
    SumValues(setentaLoop(gs.Piles[playerID], 1,
                          [suitBest |-> <<>>, suitHasCard |-> <<>>]).suitBest)

calculateSetenta(gs, playerID) ==
    Let(setentaLoop(gs.Piles[playerID], 1, [suitBest |-> <<>>, suitHasCard |-> <<>>]),
        LAMBDA m :
        IF Cardinality(DOMAIN m.suitHasCard) < 4 THEN 0
        ELSE SumValues(m.suitBest))

CountOro(pile) == Cardinality({i \in 1..Len(pile) : pile[i].Suit = ORO})

\* Mutant of HasSiete: a seven of any suit counts.
HasSiete_AnySuit(pile) == \E i \in 1..Len(pile) : pile[i].Number = 7

HasSiete(pile) == \E i \in 1..Len(pile) : pile[i].Suit = ORO /\ pile[i].Number = 7

Bool2Int(b) == IF b THEN 1 ELSE 0

\* Mutant of SetResultOf: equal card counts give the point to both players.
SetResultOf_TieScores(gs) ==
    Let([p \in Players |-> Len(gs.Piles[p])], LAMBDA CardCounts :
    Let([p \in Players |-> CountOro(gs.Piles[p])], LAMBDA OroCardCounts :
    Let([p \in Players |-> HasSiete(gs.Piles[p])], LAMBDA HasSieteDeOro :
    Let([p \in Players |-> calculateSetenta(gs, p)], LAMBDA SetentaScores :
    LET sieteTo == IF HasSieteDeOro[0] THEN 0 ELSE IF HasSieteDeOro[1] THEN 1 ELSE -1
        PointsAwarded ==
            [p \in Players |->
                gs.Escobas[p]
                + Bool2Int(CardCounts[p] >= CardCounts[OpponentOf(p)])
                + Bool2Int(OroCardCounts[p] > OroCardCounts[OpponentOf(p)])
                + Bool2Int(sieteTo = p)
                + Bool2Int(SetentaScores[p] > SetentaScores[OpponentOf(p)]
                           /\ SetentaScores[p] > 0)]
    IN [CardCounts |-> CardCounts,
        OroCardCounts |-> OroCardCounts,
        HasSieteDeOro |-> HasSieteDeOro,
        SetentaScores |-> SetentaScores,
        PointsAwarded |-> PointsAwarded,
        EscobasThisSet |-> [p \in Players |-> gs.Escobas[p]]]))))

\* The SetResult that scoreSet builds, from the state with the table cleared.
\* Mutant of SetResultOf: the 7 de oro gives no point.
SetResultOf_NoSietePoint(gs) ==
    Let([p \in Players |-> Len(gs.Piles[p])], LAMBDA CardCounts :
    Let([p \in Players |-> CountOro(gs.Piles[p])], LAMBDA OroCardCounts :
    Let([p \in Players |-> HasSiete(gs.Piles[p])], LAMBDA HasSieteDeOro :
    Let([p \in Players |-> calculateSetenta(gs, p)], LAMBDA SetentaScores :
    LET sieteTo == IF HasSieteDeOro[0] THEN 0 ELSE IF HasSieteDeOro[1] THEN 1 ELSE -1
        PointsAwarded ==
            [p \in Players |->
                gs.Escobas[p]
                + Bool2Int(CardCounts[p] > CardCounts[OpponentOf(p)])
                + Bool2Int(OroCardCounts[p] > OroCardCounts[OpponentOf(p)])
                + Bool2Int(SetentaScores[p] > SetentaScores[OpponentOf(p)]
                           /\ SetentaScores[p] > 0)]
    IN [CardCounts |-> CardCounts,
        OroCardCounts |-> OroCardCounts,
        HasSieteDeOro |-> HasSieteDeOro,
        SetentaScores |-> SetentaScores,
        PointsAwarded |-> PointsAwarded,
        EscobasThisSet |-> [p \in Players |-> gs.Escobas[p]]]))))

SetResultOf(gs) ==
    Let([p \in Players |-> Len(gs.Piles[p])], LAMBDA CardCounts :
    Let([p \in Players |-> CountOro(gs.Piles[p])], LAMBDA OroCardCounts :
    Let([p \in Players |-> HasSiete(gs.Piles[p])], LAMBDA HasSieteDeOro :
    Let([p \in Players |-> calculateSetenta(gs, p)], LAMBDA SetentaScores :
    LET sieteTo == IF HasSieteDeOro[0] THEN 0 ELSE IF HasSieteDeOro[1] THEN 1 ELSE -1
        PointsAwarded ==
            [p \in Players |->
                gs.Escobas[p]
                + Bool2Int(CardCounts[p] > CardCounts[OpponentOf(p)])
                + Bool2Int(OroCardCounts[p] > OroCardCounts[OpponentOf(p)])
                + Bool2Int(sieteTo = p)
                + Bool2Int(SetentaScores[p] > SetentaScores[OpponentOf(p)]
                           /\ SetentaScores[p] > 0)]
    IN [CardCounts |-> CardCounts,
        OroCardCounts |-> OroCardCounts,
        HasSieteDeOro |-> HasSieteDeOro,
        SetentaScores |-> SetentaScores,
        PointsAwarded |-> PointsAwarded,
        EscobasThisSet |-> [p \in Players |-> gs.Escobas[p]]]))))

RECURSIVE startNewSet(_)
RECURSIVE startNewRound(_)
RECURSIVE scoreSet(_)

\* Mutant of dealTable: the initial escoba is not counted.
dealTable_EscobaNotCounted(gs) ==
    LET n == Min(4, Len(gs.deck))
    IN Let([gs EXCEPT !.TableCards = @ \o SubSeq(gs.deck, 1, n),
                      !.deck = SubSeq(gs.deck, n + 1, Len(gs.deck))],
           LAMBDA g1 :
           IF sumCards(g1.TableCards) = 15
           THEN [g1 EXCEPT !.Piles[g1.RoundTurnPlayerID] = @ \o g1.TableCards,
                           !.LastCapturerPlayerID = g1.RoundTurnPlayerID,
                           !.TableCards = <<>>]
           ELSE g1)

\* Mutant of dealTable: three table cards are dealt.
dealTable_ThreeCards(gs) ==
    LET n == Min(3, Len(gs.deck))
    IN Let([gs EXCEPT !.TableCards = @ \o SubSeq(gs.deck, 1, n),
                      !.deck = SubSeq(gs.deck, n + 1, Len(gs.deck))],
           LAMBDA g1 :
           IF sumCards(g1.TableCards) = 15
           THEN [g1 EXCEPT !.Piles[g1.RoundTurnPlayerID] = @ \o g1.TableCards,
                           !.Escobas[g1.RoundTurnPlayerID] = @ + 1,
                           !.LastCapturerPlayerID = g1.RoundTurnPlayerID,
                           !.TableCards = <<>>]
           ELSE g1)

\* The first-round table deal of startNewRound and the initial escoba.
dealTable(gs) ==
    LET n == Min(4, Len(gs.deck))
    IN Let([gs EXCEPT !.TableCards = @ \o SubSeq(gs.deck, 1, n),
                      !.deck = SubSeq(gs.deck, n + 1, Len(gs.deck))],
           LAMBDA g1 :
           IF sumCards(g1.TableCards) = 15
           THEN [g1 EXCEPT !.Piles[g1.RoundTurnPlayerID] = @ \o g1.TableCards,
                           !.Escobas[g1.RoundTurnPlayerID] = @ + 1,
                           !.LastCapturerPlayerID = g1.RoundTurnPlayerID,
                           !.TableCards = <<>>]
           ELSE g1)

\* Mutant of startNewRound: the turn is not given to the dealer.
startNewRound_KeepsTurn(w) ==
    Let([w.g EXCEPT !.RoundJustStarted = TRUE,
                    !.RoundNumber = @ + 1],
        LAMBDA g0 :
        IF Len(g0.deck) >= 6
        THEN Let(dealHand(g0.deck), LAMBDA h0 :
             Let(dealHand(h0.cards), LAMBDA h1 :
             Let([g0 EXCEPT !.Hands = [p \in Players |-> IF p = 0 THEN h0.hand ELSE h1.hand],
                            !.deck = h1.cards],
                 LAMBDA g1 :
             Let(IF g1.RoundNumber = 1 THEN dealTable(g1) ELSE g1, LAMBDA g2 :
             Let([g2 EXCEPT !.RoundFinished = FALSE], LAMBDA g3 :
                 [g |-> [g3 EXCEPT !.PossibleActions =
                                       _serializeActions(CalculatePossibleActions(g3))],
                  rng |-> w.rng])))))
        ELSE Let([g |-> [g0 EXCEPT !.SetFinished = TRUE], rng |-> w.rng], LAMBDA w1 :
                 scoreSet(w1)))

\* Mutant of startNewRound: table cards are dealt on every round.
startNewRound_TableEveryRound(w) ==
    Let([w.g EXCEPT !.RoundJustStarted = TRUE,
                    !.RoundNumber = @ + 1,
                    !.TurnPlayerID = w.g.RoundTurnPlayerID],
        LAMBDA g0 :
        IF Len(g0.deck) >= 6
        THEN Let(dealHand(g0.deck), LAMBDA h0 :
             Let(dealHand(h0.cards), LAMBDA h1 :
             Let([g0 EXCEPT !.Hands = [p \in Players |-> IF p = 0 THEN h0.hand ELSE h1.hand],
                            !.deck = h1.cards],
                 LAMBDA g1 :
             Let(dealTable(g1), LAMBDA g2 :
             Let([g2 EXCEPT !.RoundFinished = FALSE], LAMBDA g3 :
                 [g |-> [g3 EXCEPT !.PossibleActions =
                                       _serializeActions(CalculatePossibleActions(g3))],
                  rng |-> w.rng])))))
        ELSE Let([g |-> [g0 EXCEPT !.SetFinished = TRUE], rng |-> w.rng], LAMBDA w1 :
                 scoreSet(w1)))

\* Mutant of startNewRound: the turn is given to the dealer on round 1 only.
startNewRound_TurnOnRoundOne(w) ==
    Let([w.g EXCEPT !.RoundJustStarted = TRUE,
                    !.RoundNumber = @ + 1,
                    !.TurnPlayerID = IF w.g.RoundNumber = 0
                                     THEN w.g.RoundTurnPlayerID ELSE @],
        LAMBDA g0 :
        IF Len(g0.deck) >= 6
        THEN Let(dealHand(g0.deck), LAMBDA h0 :
             Let(dealHand(h0.cards), LAMBDA h1 :
             Let([g0 EXCEPT !.Hands = [p \in Players |-> IF p = 0 THEN h0.hand ELSE h1.hand],
                            !.deck = h1.cards],
                 LAMBDA g1 :
             Let(IF g1.RoundNumber = 1 THEN dealTable(g1) ELSE g1, LAMBDA g2 :
             Let([g2 EXCEPT !.RoundFinished = FALSE], LAMBDA g3 :
                 [g |-> [g3 EXCEPT !.PossibleActions =
                                       _serializeActions(CalculatePossibleActions(g3))],
                  rng |-> w.rng])))))
        ELSE Let([g |-> [g0 EXCEPT !.SetFinished = TRUE], rng |-> w.rng], LAMBDA w1 :
                 scoreSet(w1)))

\* Mutant of startNewRound: RoundFinished is not cleared after the deal.
startNewRound_KeepsRoundFinished(w) ==
    Let([w.g EXCEPT !.RoundJustStarted = TRUE,
                    !.RoundNumber = @ + 1,
                    !.TurnPlayerID = w.g.RoundTurnPlayerID],
        LAMBDA g0 :
        IF Len(g0.deck) >= 6
        THEN Let(dealHand(g0.deck), LAMBDA h0 :
             Let(dealHand(h0.cards), LAMBDA h1 :
             Let([g0 EXCEPT !.Hands = [p \in Players |-> IF p = 0 THEN h0.hand ELSE h1.hand],
                            !.deck = h1.cards],
                 LAMBDA g1 :
             Let(IF g1.RoundNumber = 1 THEN dealTable(g1) ELSE g1, LAMBDA g3 :
                 [g |-> [g3 EXCEPT !.PossibleActions =
                                       _serializeActions(CalculatePossibleActions(g3))],
                  rng |-> w.rng]))))
        ELSE Let([g |-> [g0 EXCEPT !.SetFinished = TRUE], rng |-> w.rng], LAMBDA w1 :
                 scoreSet(w1)))

startNewRound(w) ==
    Let([w.g EXCEPT !.RoundJustStarted = TRUE,
                    !.RoundNumber = @ + 1,
                    !.TurnPlayerID = w.g.RoundTurnPlayerID],
        LAMBDA g0 :
        IF Len(g0.deck) >= 6
        THEN Let(dealHand(g0.deck), LAMBDA h0 :
             Let(dealHand(h0.cards), LAMBDA h1 :
             Let([g0 EXCEPT !.Hands = [p \in Players |-> IF p = 0 THEN h0.hand ELSE h1.hand],
                            !.deck = h1.cards],
                 LAMBDA g1 :
             Let(IF g1.RoundNumber = 1 THEN dealTable(g1) ELSE g1, LAMBDA g2 :
             Let([g2 EXCEPT !.RoundFinished = FALSE], LAMBDA g3 :
                 [g |-> [g3 EXCEPT !.PossibleActions =
                                       _serializeActions(CalculatePossibleActions(g3))],
                  rng |-> w.rng])))))
        ELSE Let([g |-> [g0 EXCEPT !.SetFinished = TRUE], rng |-> w.rng], LAMBDA w1 :
                 scoreSet(w1)))

\* Mutant of startNewSet: the piles of the set before are kept.
startNewSet_KeepsPiles(w) ==
    Let(newDeck(w.rng), LAMBDA d :
    Let([g |-> [w.g EXCEPT !.deck = d.cards,
                           !.TableCards = <<>>,
                           !.Escobas = [p \in Players |-> 0],
                           !.LastCapturerPlayerID = w.g.RoundTurnPlayerID,
                           !.RoundNumber = 0,
                           !.SetFinished = FALSE,
                           !.SetJustStarted = TRUE],
         rng |-> d.rng],
        LAMBDA w1 : startNewRound(w1)))

\* Mutant of startNewSet: the action history starts again with the set.
startNewSet_ClearsHistory(w) ==
    Let(newDeck(w.rng), LAMBDA d :
    Let([g |-> [w.g EXCEPT !.deck = d.cards,
                           !.TableCards = <<>>,
                           !.Piles = [p \in Players |-> <<>>],
                           !.Escobas = [p \in Players |-> 0],
                           !.LastCapturerPlayerID = w.g.RoundTurnPlayerID,
                           !.RoundNumber = 0,
                           !.SetFinished = FALSE,
                           !.SetJustStarted = TRUE,
                           !.Actions = <<>>,
                           !.ActionOwnerPlayerIDs = <<>>],
         rng |-> d.rng],
        LAMBDA w1 : startNewRound(w1)))

\* startNewSet once newDeck has returned cards: the resets and the first
\* round.
startNewSetDealt(w, cards) ==
    Let([g |-> [w.g EXCEPT !.deck = cards,
                           !.TableCards = <<>>,
                           !.Piles = [p \in Players |-> <<>>],
                           !.Escobas = [p \in Players |-> 0],
                           !.LastCapturerPlayerID = w.g.RoundTurnPlayerID,
                           !.RoundNumber = 0,
                           !.SetFinished = FALSE,
                           !.SetJustStarted = TRUE],
         rng |-> w.rng],
        LAMBDA w1 : startNewRound(w1))

startNewSet(w) ==
    Let(newDeck(w.rng), LAMBDA d :
        startNewSetDealt([g |-> w.g, rng |-> d.rng], d.cards))

\* Mutant of scoreSet: a game that ends on equal scores goes to player 0.
scoreSet_NoDraw(w) ==
    Let(IF Len(w.g.TableCards) > 0
        THEN [w.g EXCEPT !.Piles[w.g.LastCapturerPlayerID] = @ \o w.g.TableCards,
                         !.TableCards = <<>>]
        ELSE w.g,
        LAMBDA g1 :
    Let(SetResultOf(g1), LAMBDA result :
    Let([g1 EXCEPT !.Scores = [p \in Players |-> g1.Scores[p] + result.PointsAwarded[p]],
                   !.LastSetResults = <<result>>],
        LAMBDA g2 :
        IF g2.Scores[0] >= 15 \/ g2.Scores[1] >= 15
        THEN [g |-> [g2 EXCEPT !.IsEnded = TRUE,
                               !.WinnerPlayerID =
                                   IF g2.Scores[0] >= g2.Scores[1] THEN 0 ELSE 1],
              rng |-> w.rng]
        ELSE startNewSet([g |-> [g2 EXCEPT !.RoundTurnPlayerID = OpponentOf(@)],
                          rng |-> w.rng]))))

\* Mutant of scoreSet: the cards left on the table go to the dealer.
scoreSet_LeftoverToDealer(w) ==
    Let(IF Len(w.g.TableCards) > 0
        THEN [w.g EXCEPT !.Piles[w.g.RoundTurnPlayerID] = @ \o w.g.TableCards,
                         !.TableCards = <<>>]
        ELSE w.g,
        LAMBDA g1 :
    Let(SetResultOf(g1), LAMBDA result :
    Let([g1 EXCEPT !.Scores = [p \in Players |-> g1.Scores[p] + result.PointsAwarded[p]],
                   !.LastSetResults = <<result>>],
        LAMBDA g2 :
        IF g2.Scores[0] >= 15 \/ g2.Scores[1] >= 15
        THEN [g |-> [g2 EXCEPT !.IsEnded = TRUE, !.WinnerPlayerID = IF g2.Scores[0] > g2.Scores[1] THEN 0
                                                 ELSE IF g2.Scores[1] > g2.Scores[0] THEN 1
                                                 ELSE -1],
              rng |-> w.rng]
        ELSE startNewSet([g |-> [g2 EXCEPT !.RoundTurnPlayerID = OpponentOf(@)],
                          rng |-> w.rng]))))

\* Mutant of scoreSet: the dealer of the next set is the same player.
scoreSet_KeepsDealer(w) ==
    Let(IF Len(w.g.TableCards) > 0
        THEN [w.g EXCEPT !.Piles[w.g.LastCapturerPlayerID] = @ \o w.g.TableCards,
                         !.TableCards = <<>>]
        ELSE w.g,
        LAMBDA g1 :
    Let(SetResultOf(g1), LAMBDA result :
    Let([g1 EXCEPT !.Scores = [p \in Players |-> g1.Scores[p] + result.PointsAwarded[p]],
                   !.LastSetResults = <<result>>],
        LAMBDA g2 :
        IF g2.Scores[0] >= 15 \/ g2.Scores[1] >= 15
        THEN [g |-> [g2 EXCEPT !.IsEnded = TRUE,
                               !.WinnerPlayerID =
                                   IF g2.Scores[0] > g2.Scores[1] THEN 0
                                   ELSE IF g2.Scores[1] > g2.Scores[0] THEN 1
                                   ELSE -1],
              rng |-> w.rng]
        ELSE startNewSet([g |-> g2, rng |-> w.rng]))))

\* Mutant of scoreSet: a score of 15 neither ends the game nor starts a set.
scoreSet_ForgetsToEnd(w) ==
    Let(IF Len(w.g.TableCards) > 0
        THEN [w.g EXCEPT !.Piles[w.g.LastCapturerPlayerID] = @ \o w.g.TableCards,
                         !.TableCards = <<>>]
        ELSE w.g,
        LAMBDA g1 :
    Let(SetResultOf(g1), LAMBDA result :
    Let([g1 EXCEPT !.Scores = [p \in Players |-> g1.Scores[p] + result.PointsAwarded[p]],
                   !.LastSetResults = <<result>>],
        LAMBDA g2 :
        IF g2.Scores[0] >= 15 \/ g2.Scores[1] >= 15
        THEN [g |-> g2, rng |-> w.rng]
        ELSE Let([g |-> [g2 EXCEPT !.RoundTurnPlayerID = OpponentOf(@)], rng |-> w.rng],
                 LAMBDA w1 : startNewSet(w1)))))

\* Mutant of scoreSet: the cards left on the table are not awarded.
scoreSet_LeavesTable(w) ==
    Let(SetResultOf(w.g), LAMBDA result :
    Let([w.g EXCEPT !.Scores = [p \in Players |-> w.g.Scores[p] + result.PointsAwarded[p]],
                    !.LastSetResults = <<result>>],
        LAMBDA g2 :
        IF g2.Scores[0] >= 15 \/ g2.Scores[1] >= 15
        THEN [g |-> [g2 EXCEPT !.IsEnded = TRUE,
                               !.WinnerPlayerID =
                                   IF g2.Scores[0] > g2.Scores[1] THEN 0
                                   ELSE IF g2.Scores[1] > g2.Scores[0] THEN 1
                                   ELSE -1],
              rng |-> w.rng]
        ELSE Let([g |-> [g2 EXCEPT !.RoundTurnPlayerID = OpponentOf(@)], rng |-> w.rng],
                 LAMBDA w1 : startNewSet(w1))))

\* Mutant of scoreSet: the game ends at 20 points.
scoreSet_EndsAtTwenty(w) ==
    Let(IF Len(w.g.TableCards) > 0
        THEN [w.g EXCEPT !.Piles[w.g.LastCapturerPlayerID] = @ \o w.g.TableCards,
                         !.TableCards = <<>>]
        ELSE w.g,
        LAMBDA g1 :
    Let(SetResultOf(g1), LAMBDA result :
    Let([g1 EXCEPT !.Scores = [p \in Players |-> g1.Scores[p] + result.PointsAwarded[p]],
                   !.LastSetResults = <<result>>],
        LAMBDA g2 :
        IF g2.Scores[0] >= 20 \/ g2.Scores[1] >= 20
        THEN [g |-> [g2 EXCEPT !.IsEnded = TRUE,
                               !.WinnerPlayerID =
                                   IF g2.Scores[0] > g2.Scores[1] THEN 0
                                   ELSE IF g2.Scores[1] > g2.Scores[0] THEN 1
                                   ELSE -1],
              rng |-> w.rng]
        ELSE Let([g |-> [g2 EXCEPT !.RoundTurnPlayerID = OpponentOf(@)], rng |-> w.rng],
                 LAMBDA w1 : startNewSet(w1)))))

\* Mutant of scoreSet: only the first set's result is recorded.
scoreSet_KeepsFirstResult(w) ==
    Let(IF Len(w.g.TableCards) > 0
        THEN [w.g EXCEPT !.Piles[w.g.LastCapturerPlayerID] = @ \o w.g.TableCards,
                         !.TableCards = <<>>]
        ELSE w.g,
        LAMBDA g1 :
    Let(SetResultOf(g1), LAMBDA result :
    Let([g1 EXCEPT !.Scores = [p \in Players |-> g1.Scores[p] + result.PointsAwarded[p]],
                   !.LastSetResults = IF @ = <<>> THEN <<result>> ELSE @],
        LAMBDA g2 :
        IF g2.Scores[0] >= 15 \/ g2.Scores[1] >= 15
        THEN [g |-> [g2 EXCEPT !.IsEnded = TRUE,
                               !.WinnerPlayerID =
                                   IF g2.Scores[0] > g2.Scores[1] THEN 0
                                   ELSE IF g2.Scores[1] > g2.Scores[0] THEN 1
                                   ELSE -1],
              rng |-> w.rng]
        ELSE Let([g |-> [g2 EXCEPT !.RoundTurnPlayerID = OpponentOf(@)], rng |-> w.rng],
                 LAMBDA w1 : startNewSet(w1)))))

scoreSet(w) ==
    Let(IF Len(w.g.TableCards) > 0
        THEN [w.g EXCEPT !.Piles[w.g.LastCapturerPlayerID] = @ \o w.g.TableCards,
                         !.TableCards = <<>>]
        ELSE w.g,
        LAMBDA g1 :
    Let(SetResultOf(g1), LAMBDA result :
    Let([g1 EXCEPT !.Scores = [p \in Players |-> g1.Scores[p] + result.PointsAwarded[p]],
                   !.LastSetResults = <<result>>],
        LAMBDA g2 :
        IF g2.Scores[0] >= 15 \/ g2.Scores[1] >= 15
        THEN [g |-> [g2 EXCEPT !.IsEnded = TRUE,
                               !.WinnerPlayerID =
                                   IF g2.Scores[0] > g2.Scores[1] THEN 0
                                   ELSE IF g2.Scores[1] > g2.Scores[0] THEN 1
                                   ELSE -1],
              rng |-> w.rng]
        ELSE Let([g |-> [g2 EXCEPT !.RoundTurnPlayerID = OpponentOf(@)], rng |-> w.rng],
                 LAMBDA w1 : startNewSet(w1)))))

errActionNotPossible == "action not possible"
errGameIsEnded == "game is ended"

\* What RunAction does with an action once it has accepted it.
RunAction_Accepted(a, w) ==
    Let(Run(a, w), LAMBDA ran :
    Let([ran.g EXCEPT !.RoundJustStarted = FALSE,
                      !.SetJustStarted = FALSE,
                      !.Actions = Append(@, SerializeAction(a)),
                      !.ActionOwnerPlayerIDs = Append(@, CurrentPlayerID(ran.g))],
        LAMBDA g1 :
    Let(IF Len(g1.Hands[0]) = 0 /\ Len(g1.Hands[1]) = 0
        THEN [g1 EXCEPT !.RoundFinished = TRUE]
        ELSE g1,
        LAMBDA g2 :
        IF ~g2.IsEnded /\ g2.RoundFinished /\ ~g2.SetFinished
        THEN Let(startNewRound([g |-> g2, rng |-> ran.rng]), LAMBDA w2 :
                 [g |-> w2.g, rng |-> w2.rng, err |-> ""])
        ELSE IF g2.SetFinished
        THEN [g |-> g2, rng |-> ran.rng, err |-> ""]
        ELSE [g |-> [g2 EXCEPT !.TurnPlayerID = OpponentOf(@),
                               !.PossibleActions =
                                   _serializeActions(CalculatePossibleActions(
                                       [g2 EXCEPT !.TurnPlayerID = OpponentOf(@)]))],
              rng |-> ran.rng, err |-> ""])))

\* Mutant of RunAction: the just-started flags are cleared before the
\* legality check.
RunAction_ClearsFlagsFirst(a, w) ==
    IF w.g.IsEnded THEN [g |-> w.g, rng |-> w.rng, err |-> errGameIsEnded]
    ELSE IF ~IsPossible(a, w.g)
    THEN [g |-> [w.g EXCEPT !.RoundJustStarted = FALSE, !.SetJustStarted = FALSE],
          rng |-> w.rng, err |-> errActionNotPossible]
    ELSE RunAction_Accepted(a, w)

\* Mutant of RunAction: no check that the game has ended.
RunAction_NoEndCheck(a, w) ==
    IF ~IsPossible(a, w.g) THEN [g |-> w.g, rng |-> w.rng, err |-> errActionNotPossible]
    ELSE RunAction_Accepted(a, w)

\* Mutant of RunAction: the legal actions are recomputed before the turn is
\* switched.
RunAction_ListBeforeTurn(a, w) ==
    IF w.g.IsEnded THEN [g |-> w.g, rng |-> w.rng, err |-> errGameIsEnded]
    ELSE IF ~IsPossible(a, w.g) THEN [g |-> w.g, rng |-> w.rng, err |-> errActionNotPossible]
    ELSE Let(Run(a, w), LAMBDA ran :
         Let([ran.g EXCEPT !.RoundJustStarted = FALSE,
                           !.SetJustStarted = FALSE,
                           !.Actions = Append(@, SerializeAction(a)),
                           !.ActionOwnerPlayerIDs = Append(@, CurrentPlayerID(ran.g))],
             LAMBDA g1 :
         Let(IF Len(g1.Hands[0]) = 0 /\ Len(g1.Hands[1]) = 0
             THEN [g1 EXCEPT !.RoundFinished = TRUE]
             ELSE g1,
             LAMBDA g2 :
             IF ~g2.IsEnded /\ g2.RoundFinished /\ ~g2.SetFinished
             THEN Let([g |-> g2, rng |-> ran.rng], LAMBDA w1 :
                  Let(startNewRound(w1), LAMBDA w2 :
                      [g |-> w2.g, rng |-> w2.rng, err |-> ""]))
             ELSE IF g2.SetFinished
             THEN [g |-> g2, rng |-> ran.rng, err |-> ""]
             ELSE Let(_serializeActions(CalculatePossibleActions(g2)), LAMBDA list :
                      [g |-> [g2 EXCEPT !.TurnPlayerID = OpponentOf(@),
                                        !.PossibleActions = list],
                       rng |-> ran.rng, err |-> ""]))))

\* RunAction: the world after the call and the error it returns.
RunAction(a, w) ==
    IF w.g.IsEnded THEN [g |-> w.g, rng |-> w.rng, err |-> errGameIsEnded]
    ELSE IF ~IsPossible(a, w.g) THEN [g |-> w.g, rng |-> w.rng, err |-> errActionNotPossible]
    ELSE Let(Run(a, w), LAMBDA ran :
         Let([ran.g EXCEPT !.RoundJustStarted = FALSE,
                           !.SetJustStarted = FALSE,
                           !.Actions = Append(@, SerializeAction(a)),
                           !.ActionOwnerPlayerIDs = Append(@, CurrentPlayerID(ran.g))],
             LAMBDA g1 :
         Let(IF Len(g1.Hands[0]) = 0 /\ Len(g1.Hands[1]) = 0
             THEN [g1 EXCEPT !.RoundFinished = TRUE]
             ELSE g1,
             LAMBDA g2 :
             IF ~g2.IsEnded /\ g2.RoundFinished /\ ~g2.SetFinished
             THEN Let([g |-> g2, rng |-> ran.rng], LAMBDA w1 :
                  Let(startNewRound(w1), LAMBDA w2 :
                      [g |-> w2.g, rng |-> w2.rng, err |-> ""]))
             ELSE IF g2.SetFinished
             THEN [g |-> g2, rng |-> ran.rng, err |-> ""]
             ELSE Let(IF ~g2.IsEnded /\ ~g2.RoundFinished /\ YieldsTurn(a, g2)
                      THEN [g2 EXCEPT !.TurnPlayerID = OpponentOf(@)]
                      ELSE g2,
                      LAMBDA g3 :
                      [g |-> [g3 EXCEPT !.PossibleActions =
                                            _serializeActions(CalculatePossibleActions(g3))],
                       rng |-> ran.rng, err |-> ""]))))

\* Mutant of New: player 1 deals the first set.
New_PlayerOneDeals(r) ==
    Let(newDeck(r), LAMBDA d :
    Let([g |-> [RoundTurnPlayerID |-> 1,
                RoundNumber |-> 0,
                TurnPlayerID |-> 0,
                Hands |-> [p \in Players |-> <<>>],
                TableCards |-> <<>>,
                Piles |-> [p \in Players |-> <<>>],
                Escobas |-> [p \in Players |-> 0],
                Scores |-> [p \in Players |-> 0],
                PossibleActions |-> <<>>,
                RoundFinished |-> FALSE,
                SetFinished |-> FALSE,
                IsEnded |-> FALSE,
                WinnerPlayerID |-> -1,
                Actions |-> <<>>,
                ActionOwnerPlayerIDs |-> <<>>,
                RoundJustStarted |-> FALSE,
                LastSetResults |-> <<>>,
                LastCapturerPlayerID |-> 0,
                SetJustStarted |-> FALSE,
                deck |-> d.cards],
         rng |-> d.rng],
        LAMBDA w : startNewSet(w)))

\* New(): the struct literal, then startNewSet.
New(r) ==
    Let(newDeck(r), LAMBDA d :
    Let([g |-> [RoundTurnPlayerID |-> 0,
                RoundNumber |-> 0,
                TurnPlayerID |-> 0,
                Hands |-> [p \in Players |-> <<>>],
                TableCards |-> <<>>,
                Piles |-> [p \in Players |-> <<>>],
                Escobas |-> [p \in Players |-> 0],
                Scores |-> [p \in Players |-> 0],
                PossibleActions |-> <<>>,
                RoundFinished |-> FALSE,
                SetFinished |-> FALSE,
                IsEnded |-> FALSE,
                WinnerPlayerID |-> -1,
                Actions |-> <<>>,
                ActionOwnerPlayerIDs |-> <<>>,
                RoundJustStarted |-> FALSE,
                LastSetResults |-> <<>>,
                LastCapturerPlayerID |-> 0,
                SetJustStarted |-> FALSE,
                deck |-> d.cards],
         rng |-> d.rng],
        LAMBDA w : startNewSet(w)))

\* Mutant of ChooseAction: the first hand card is thrown with no capture.
ChooseAction_FirstHandCard(gs, r) ==
    Let(gs.Hands[gs.TurnPlayerID], LAMBDA hand :
        IF Len(hand) = 0 THEN [action |-> <<>>, rng |-> r]
        ELSE [action |-> <<newActionThrowCard(hand[1], <<>>)>>, rng |-> r])

\* SimpleBot.ChooseAction (bot.go): a random enumerated action.
ChooseAction(gs, r) ==
    Let(CalculatePossibleActions(gs), LAMBDA actions :
    Let(NextRng(r), LAMBDA r1 :
        IF Len(actions) = 0 THEN [action |-> <<>>, rng |-> r]
        ELSE [action |-> <<actions[Intn(r1, Len(actions)) + 1]>>, rng |-> r1]))

\* The throw-card actions among actions, in order (the filter loop of the
\* sorting SimpleBot.ChooseAction).
throwActions(actions) == SelectSeq(actions, LAMBDA a : a.Name = THROW_CARD)

\* The sorting SimpleBot.ChooseAction: nil (the empty sequence) when nothing
\* is enumerated, the only action when there is one, else the first throw
\* action after sort.Slice.  The methods its comparison calls (IsEscoba,
\* CapturesSieteDeVelos, CardCount, OrosCount, CardSetentaSum) are not part
\* of the sources, so the comparison is left open: sort.Slice only swaps
\* elements, and any throw action may come first.  The set of the values the
\* call can return.
ChooseActionBySort(gs) ==
    Let(CalculatePossibleActions(gs), LAMBDA actions :
        IF Len(actions) = 0 THEN {<<>>}
        ELSE IF Len(actions) = 1 THEN {<<actions[1]>>}
        ELSE Let(throwActions(actions), LAMBDA throws :
                 IF Len(throws) = 0 THEN {<<>>}
                 ELSE IF Len(throws) = 1 THEN {<<throws[1]>>}
                 ELSE {<<throws[i]>> : i \in 1..Len(throws)}))

(***************************************************************************)
(* Submitted actions: what a client may send to RunAction.                 *)
(***************************************************************************)
Reverse(s) == [i \in 1..Len(s) |-> s[Len(s) + 1 - i]]

\* The subsequences of s from index i on that have at most n elements.
RECURSIVE InOrder(_, _, _)
InOrder(s, n, i) ==
    IF n = 0 THEN {<<>>}
    ELSE {<<>>} \cup UNION {{<<s[k]>> \o t : t \in InOrder(s, n - 1, k + 1)} : k \in i..Len(s)}

ThrowCandidates(gs) ==
    Range(gs.Hands[0]) \cup Range(gs.Hands[1])
    \cup (IF Len(gs.TableCards) > 0 THEN {gs.TableCards[1]} ELSE {})
    \cup {Card(ORO, 7)}

DeclaredCandidates(gs) ==
    LET enumerated == {a.CapturedTableCards : a \in Range(CalculatePossibleActions(gs))}
    IN InOrder(gs.TableCards, MaxDeclared, 1)
       \cup enumerated
       \cup {Reverse(s) : s \in enumerated}
       \cup {<<c, c>> : c \in Range(gs.TableCards)}
       \cup {<<c>> : c \in Range(gs.Hands[gs.TurnPlayerID])}

Inputs(gs) ==
    {newActionThrowCard(c, s) : c \in ThrowCandidates(gs), s \in DeclaredCandidates(gs)}

(***************************************************************************)
(* Specification of the game.                                              *)
(***************************************************************************)
World == [g |-> g, rng |-> rng]

Seeds == {1000 * k + 1 : k \in 0..(NumSeeds - 1)}

Init ==
    /\ \E seed \in Seeds : \E w \in {New(seed)} : g = w.g /\ rng = w.rng
    /\ err = ""
    /\ fnCard = Card(ORO, 7)
    /\ fnTable = <<>>
    /\ fnResult = <<>>

\* A client submits action a (escobaRunAction, the websocket server).
SubmitAction(a) ==
    /\ Len(g.Actions) < MaxManualActions \/ g.IsEnded
    /\ \E r \in {RunAction(a, World)} : g' = r.g /\ rng' = r.rng /\ err' = r.err
    /\ UNCHANGED <<fnCard, fnTable, fnResult>>

\* escobaBotRunAction: the bot chooses and the engine runs its choice.
BotRunAction ==
    /\ ~g.IsEnded
    /\ \E c \in {ChooseAction(g, rng)} :
          /\ Len(c.action) > 0
          /\ \E r \in {RunAction(c.action[1], [g |-> g, rng |-> c.rng])} :
                g' = r.g /\ rng' = r.rng /\ err' = r.err
    /\ UNCHANGED <<fnCard, fnTable, fnResult>>

Next ==
    \/ \E a \in Inputs(g) : SubmitAction(a)
    \/ BotRunAction

Spec == Init /\ [][Next]_vars

\* The game when it is played on: while it has not ended the page keeps
\* calling escobaBotRunAction, which applies the legal action the bot chose
\* (as TestRandomGameSimulation's loop applies a random legal action).
SpecLive == Init /\ [][Next]_vars /\ WF_vars(BotRunAction)

(***************************************************************************)
(* Specification of direct calls of findAllValidCombinations.              *)
(***************************************************************************)
\* Thrown cards of every capture value.
FnCards == {Card(ORO, Numbers[n]) : n \in 1..10}

\* Table cards to draw from: values 1, 2, 3, 3, 5, 8, 10.
FnTableCards ==
    {Card(ESPADA, 1), Card(COPA, 2), Card(ESPADA, 3), Card(COPA, 3),
     Card(BASTO, 5), Card(ORO, 10), Card(BASTO, 12)}

\* Sequences of distinct elements of S with at most n elements.
RECURSIVE Arrangements(_, _)
Arrangements(S, n) ==
    IF n = 0 THEN {<<>>}
    ELSE {<<>>} \cup UNION {{<<c>> \o t : t \in Arrangements(S \ {c}, n - 1)} : c \in S}

InitFn ==
    /\ \E w \in {New(1)} : g = w.g /\ rng = w.rng
    /\ err = ""
    /\ fnCard \in FnCards
    /\ fnTable \in Arrangements(FnTableCards, MaxTableLen)
    /\ fnResult = <<>>

CallFindAllValidCombinations ==
    /\ fnResult = <<>>
    /\ fnResult' = <<findAllValidCombinations(fnCard, fnTable)>>
    /\ UNCHANGED <<g, rng, err, fnCard, fnTable>>

NextFn == CallFindAllValidCombinations

SpecFn == InitFn /\ [][NextFn]_vars

(***************************************************************************)
(* Specification of direct calls of scoreSet: the states in which          *)
(* startNewRound calls it at the end of a set.                             *)
(***************************************************************************)
\* The captures of a set: fourteen groups of cards whose values add up to 15
\* (three per suit, two of mixed suits) and the six cards left on the table.
ScoreGroups ==
    [k \in 1..12 |->
        LET s == Suits[((k - 1) \div 3) + 1]
            j == (k - 1) % 3
        IN <<Card(s, 12 - j), Card(s, 5 + j)>>]
    \o << <<Card(ORO, 4), Card(COPA, 4), Card(ESPADA, 4), Card(ORO, 3)>>,
          <<Card(COPA, 3), Card(ESPADA, 3), Card(BASTO, 3),
            Card(ORO, 2), Card(COPA, 2), Card(ESPADA, 2)>> >>

ScoreLeftover ==
    <<Card(BASTO, 4), Card(BASTO, 2), Card(ORO, 1), Card(COPA, 1), Card(ESPADA, 1),
      Card(BASTO, 1)>>

\* The player who made capture k when the captures are split as mask says.
CapturedBy(mask, k) == (mask \div (2 ^ (k - 1))) % 2

\* The splits: the first SplitBits captures shared out in every way with the
\* rest to player 0, and splits that tie the card, oro and setenta counts.
Splits == (0..((2 ^ SplitBits) - 1)) \cup {119, 126, 127, 183, 239, 251, 253, 255, 379}

RECURSIVE PileOf(_, _, _)
PileOf(mask, p, k) ==
    IF k > Len(ScoreGroups) THEN <<>>
    ELSE (IF CapturedBy(mask, k) = p THEN ScoreGroups[k] ELSE <<>>) \o PileOf(mask, p, k + 1)

\* Cumulative scores before the set is scored.
PriorScores == {<<0, 0>>, <<14, 14>>, <<13, 14>>, <<11, 14>>}

\* The state in which startNewRound calls scoreSet: round seven of a set, no
\* card in hand or deck, the set marked finished.  The action history and the
\* list of possible actions, which scoreSet does not read, are those of New.
ScoreState(base, mask, lastCapturer, dealer, escobas, scores) ==
    [base EXCEPT !.RoundTurnPlayerID = dealer,
                 !.TurnPlayerID = dealer,
                 !.RoundNumber = 7,
                 !.RoundJustStarted = TRUE,
                 !.SetJustStarted = FALSE,
                 !.RoundFinished = TRUE,
                 !.SetFinished = TRUE,
                 !.Hands = [p \in Players |-> <<>>],
                 !.deck = <<>>,
                 !.TableCards = ScoreLeftover,
                 !.Piles = [p \in Players |-> PileOf(mask, p, 1)],
                 !.Escobas = [p \in Players |-> escobas[p + 1]],
                 !.Scores = [p \in Players |-> scores[p + 1]],
                 !.LastCapturerPlayerID = lastCapturer]

InitScore ==
    /\ \E w \in {New(1)} :
       \E mask \in Splits, lastCapturer \in Players, dealer \in Players,
          e0 \in 0..MaxSetEscobas, e1 \in 0..MaxSetEscobas, scores \in PriorScores :
          /\ Len(PileOf(mask, lastCapturer, 1)) > 0
          /\ e0 > 0 => Len(PileOf(mask, 0, 1)) > 0
          /\ e1 > 0 => Len(PileOf(mask, 1, 1)) > 0
          /\ g = ScoreState(w.g, mask, lastCapturer, dealer, <<e0, e1>>, scores)
          /\ rng = w.rng
    /\ err = ""
    /\ fnCard = Card(ORO, 7)
    /\ fnTable = <<>>
    /\ fnResult = <<>>

\* startNewRound's call of scoreSet.
CallScoreSet ==
    /\ g.SetFinished /\ ~g.IsEnded
    /\ \E r \in {scoreSet(World)} : g' = r.g /\ rng' = r.rng
    /\ UNCHANGED <<err, fnCard, fnTable, fnResult>>

NextScore == CallScoreSet

SpecScore == InitScore /\ [][NextScore]_vars

(***************************************************************************)
(* Specification of escobaNew: the first game of the program.              *)
(***************************************************************************)
\* The state pointer of main_wasm.go before escobaNew: nil.
NoState == <<>>

NewSeeds == {1000 * k + 1 : k \in 0..(NumNewSeeds - 1)}

InitNew ==
    /\ g = NoState
    /\ rng \in NewSeeds
    /\ err = ""
    /\ fnCard = Card(ORO, 7)
    /\ fnTable = <<>>
    /\ fnResult = <<>>

\* escobaNew: state = escoba.New().
EscobaNew ==
    /\ g = NoState
    /\ \E w \in {New(rng)} : g' = w.g /\ rng' = w.rng
    /\ UNCHANGED <<err, fnCard, fnTable, fnResult>>

NextNew == EscobaNew

SpecNew == InitNew /\ [][NextNew]_vars

(***************************************************************************)
(* Reference notions used to state the properties.                         *)
(***************************************************************************)
NoDuplicates(s) == Cardinality(Range(s)) = Len(s)

\* The cards in play: both hands, the table and both piles.
InPlay(gs) ==
    gs.Hands[0] \o gs.Hands[1] \o gs.TableCards \o gs.Piles[0] \o gs.Piles[1]

\* The six places a card can be in.
Places(gs) ==
    <<gs.Hands[0], gs.Hands[1], gs.TableCards, gs.Piles[0], gs.Piles[1], gs.deck>>

\* The sets of cards of the sequence s whose capture values add up to t.
RECURSIVE SubsetsSumming(_, _)
SubsetsSumming(s, t) ==
    IF t < 0 THEN {}
    ELSE IF s = <<>> THEN (IF t = 0 THEN {{}} ELSE {})
    ELSE SubsetsSumming(Tail(s), t)
         \cup {S \cup {Head(s)} : S \in SubsetsSumming(Tail(s), t - GetEscobaValue(Head(s)))}

\* The non-empty sets of table cards that card captures.
Captures(card, tableCards) ==
    SubsetsSumming(tableCards, 15 - GetEscobaValue(card)) \ {{}}

Count(s, c) == Cardinality({i \in 1..Len(s) : s[i] = c})

Mover(gs) == gs.TurnPlayerID

MoverHand(gs) == gs.Hands[gs.TurnPlayerID]

LastAction == g.Actions[Len(g.Actions)]

LastOwner == g.ActionOwnerPlayerIDs[Len(g.ActionOwnerPlayerIDs)]

\* The actions put to the engine in a state: the submissions and the enumeration.
Offered(gs) == Inputs(gs) \cup Range(CalculatePossibleActions(gs))

(***************************************************************************)
(* C1                                                                      *)
(***************************************************************************)
\* C1 as stated: in every reachable state the cards in the two hands, the
\* table and the two piles together are exactly the 40 distinct cards of the
\* deck, with no duplicate and no card absent.
C1_InPlayIsWholeDeck ==
    /\ NoDuplicates(InPlay(g))
    /\ Range(InPlay(g)) = AllCards

\* C1 amended: in every reachable state the cards in the two hands, the table
\* and the two piles are distinct, they are exactly the cards of the 40-card
\* deck that are not in the undealt deck (40 minus the deck's length of them),
\* so they are all 40 cards exactly when the undealt deck is empty.
C1_InPlayIsDealtPart ==
    /\ NoDuplicates(InPlay(g))
    /\ Range(InPlay(g)) = AllCards \ Range(g.deck)
    /\ Len(InPlay(g)) = 40 - Len(g.deck)
    /\ (Range(InPlay(g)) = AllCards) <=> (Len(g.deck) = 0)

\* A capture has been run and the undealt deck is empty: all 40 cards are in
\* hands, table and piles.
C1_Witness ==
    /\ Len(g.deck) = 0
    /\ ~g.IsEnded
    /\ Len(g.Actions) > 0
    /\ Len(LastAction.capturedTableCards) > 0
    /\ Len(g.TableCards) > 0
    /\ Len(InPlay(g)) = 40

(***************************************************************************)
(* C2                                                                      *)
(***************************************************************************)
\* C2: in every reachable state the two hands, the table, the two piles and
\* the undealt deck are pairwise disjoint, none holds a card twice, and their
\* union is the 40-card Spanish deck.
C2_Partition ==
    /\ \A i \in 1..6 : NoDuplicates(Places(g)[i])
    /\ \A i \in 1..6 : \A j \in (i + 1)..6 :
          Range(Places(g)[i]) \cap Range(Places(g)[j]) = {}
    /\ UNION {Range(Places(g)[i]) : i \in 1..6} = AllCards
    /\ Cardinality(AllCards) = 40

\* All six places hold cards after a capture.
C2_Witness ==
    /\ \A i \in 1..6 : Len(Places(g)[i]) > 0
    /\ Len(g.Actions) > 0
    /\ Len(LastAction.capturedTableCards) > 0

(***************************************************************************)
(* C3                                                                      *)
(***************************************************************************)
\* C3: while the game has not ended, CalculatePossibleActions returns at
\* least one action and the hand of the player to move is not empty.
C3_ActionsNeverEmpty ==
    ~g.IsEnded =>
        /\ Len(CalculatePossibleActions(g)) >= 1
        /\ Len(MoverHand(g)) >= 1

\* The last throw of a round is due: the mover holds one card, the other
\* player none.
C3_Witness ==
    /\ ~g.IsEnded
    /\ Len(MoverHand(g)) = 1
    /\ Len(g.Hands[OpponentOf(Mover(g))]) = 0
    /\ Len(CalculatePossibleActions(g)) >= 1

(***************************************************************************)
(* C4                                                                      *)
(***************************************************************************)
\* C4: while the game has not ended, every action CalculatePossibleActions
\* returns passes IsPossible in that state and RunAction on it returns no
\* error.
C4_EnumeratedAreAccepted ==
    ~g.IsEnded =>
        \A a \in Range(CalculatePossibleActions(g)) :
            /\ IsPossible(a, g)
            /\ RunAction(a, World).err = ""

\* An enumerated capture of a figure card (10, 11, 12) has just been run, and
\* the next enumeration offers captures again.
C4_Witness ==
    /\ ~g.IsEnded
    /\ err = ""
    /\ Len(g.Actions) > 0
    /\ \E i \in 1..Len(LastAction.capturedTableCards) :
          LastAction.capturedTableCards[i].number >= 10
    /\ \E a \in Range(CalculatePossibleActions(g)) : Len(a.CapturedTableCards) >= 2

(***************************************************************************)
(* C5                                                                      *)
(***************************************************************************)
\* The rule of the specification for a throw action.
Legal(a, gs) ==
    /\ a.Card \in Range(MoverHand(gs))
    /\ \/ /\ Len(a.CapturedTableCards) = 0
          /\ Captures(a.Card, gs.TableCards) = {}
       \/ /\ Len(a.CapturedTableCards) > 0
          /\ sumCards(a.CapturedTableCards) = 15 - GetEscobaValue(a.Card)
          /\ \A c \in Range(a.CapturedTableCards) :
                Count(a.CapturedTableCards, c) <= Count(gs.TableCards, c)

\* C5: IsPossible accepts a throw action if and only if the thrown card is in
\* the mover's hand and either nothing is declared and no subset of the table
\* sums to 15 minus the card's value, or the declared cards sum to 15 minus the
\* card's value and each matches a distinct card on the table.
C5_IsPossibleIffLegal ==
    \A a \in Offered(g) : IsPossible(a, g) <=> Legal(a, g)

\* After an accepted action, a submission that names one table card twice
\* with the right sum is refused while a capture is accepted.
C5_Witness ==
    /\ err = ""
    /\ Len(g.Actions) > 0
    /\ \E a \in Inputs(g) :
          /\ a.Card \in Range(MoverHand(g))
          /\ Len(a.CapturedTableCards) = 2
          /\ a.CapturedTableCards[1] = a.CapturedTableCards[2]
          /\ sumCards(a.CapturedTableCards) = 15 - GetEscobaValue(a.Card)
          /\ ~IsPossible(a, g)
    /\ \E a \in Inputs(g) : Len(a.CapturedTableCards) > 0 /\ IsPossible(a, g)

(***************************************************************************)
(* C6                                                                      *)
(***************************************************************************)
\* The (hand card, set of table cards it captures) pairs of a state.
ValidPairs(gs) ==
    UNION {{<<c, S>> : S \in Captures(c, gs.TableCards)} : c \in Range(MoverHand(gs))}

PairOf(a) == <<a.Card, Range(a.CapturedTableCards)>>

\* C6: if some card of the mover's hand has a capture combination, the
\* enumerated actions contain no zero-capture action and are exactly one
\* capturing action per (hand card, valid combination) pair.
C6_CapturesOnly ==
    LET actions == CalculatePossibleActions(g)
    IN (~g.IsEnded /\ ValidPairs(g) /= {}) =>
          /\ \A i \in 1..Len(actions) : Len(actions[i].CapturedTableCards) > 0
          /\ \A i \in 1..Len(actions) : NoDuplicates(actions[i].CapturedTableCards)
          /\ {PairOf(actions[i]) : i \in 1..Len(actions)} = ValidPairs(g)
          /\ Len(actions) = Cardinality(ValidPairs(g))

\* One hand card has two combinations and another hand card has none.
C6_Witness ==
    /\ ~g.IsEnded
    /\ \E c \in Range(MoverHand(g)) : Cardinality(Captures(c, g.TableCards)) >= 2
    /\ \E c \in Range(MoverHand(g)) : Captures(c, g.TableCards) = {}
    /\ Len(CalculatePossibleActions(g)) = Cardinality(ValidPairs(g))

(***************************************************************************)
(* C7                                                                      *)
(***************************************************************************)
\* C7: if no card of the mover's hand has a capture combination, the
\* enumerated actions are exactly one zero-capture throw per hand card.
C7_DiscardsOnly ==
    LET actions == CalculatePossibleActions(g)
        hand == MoverHand(g)
    IN (~g.IsEnded /\ ValidPairs(g) = {}) =>
          /\ Len(actions) = Len(hand)
          /\ \A i \in 1..Len(actions) :
                /\ actions[i].Card = hand[i]
                /\ Len(actions[i].CapturedTableCards) = 0

\* Three cards in hand, cards on the table, and nothing to capture.
C7_Witness ==
    /\ ~g.IsEnded
    /\ Len(MoverHand(g)) = 3
    /\ Len(g.TableCards) >= 2
    /\ ValidPairs(g) = {}
    /\ Len(CalculatePossibleActions(g)) = 3

(***************************************************************************)
(* C8                                                                      *)
(***************************************************************************)
\* C8: for every action with declared cards that RunAction accepts or that
\* CalculatePossibleActions enumerates, the capture values of the declared
\* cards and of the thrown card add up to 15.
C8_CapturesSumTo15 ==
    LET enumerated == Range(CalculatePossibleActions(g))
    IN ~g.IsEnded =>
          \A a \in Inputs(g) \cup enumerated :
              (/\ Len(a.CapturedTableCards) > 0
               /\ \/ a \in enumerated
                  \/ RunAction(a, World).err = "")
              => sumCards(a.CapturedTableCards) + GetEscobaValue(a.Card) = 15

\* A capture of three or more cards has been accepted.
C8_Witness ==
    /\ err = ""
    /\ Len(g.Actions) > 0
    /\ Len(LastAction.capturedTableCards) >= 3

(***************************************************************************)
(* C9                                                                      *)
(***************************************************************************)
\* C9: findAllValidCombinations returns exactly the non-empty subsets of the
\* table cards whose values sum to 15 minus the thrown card's value, each
\* once and without using a table card twice; nothing for an empty table; a
\* 7 against values 3,5,8 or 3,5,8,2 gives exactly {8} and {3,5}.
C9_CombinationsAreTheSubsets ==
    fnResult /= <<>> =>
        LET res == fnResult[1]
            example == <<Card(ESPADA, 3), Card(BASTO, 5), Card(ORO, 10), Card(COPA, 2)>>
        IN /\ \A i \in 1..Len(res) : NoDuplicates(res[i])
           /\ {Range(res[i]) : i \in 1..Len(res)} = Captures(fnCard, fnTable)
           /\ Len(res) = Cardinality(Captures(fnCard, fnTable))
           /\ fnTable = <<>> => res = <<>>
           /\ (fnCard = Card(ORO, 7) /\ fnTable \in {example, SubSeq(example, 1, 3)}) =>
                 /\ Len(res) = 2
                 /\ {Range(res[i]) : i \in 1..2}
                       = {{Card(ORO, 10)}, {Card(ESPADA, 3), Card(BASTO, 5)}}

\* The call of the test: a 7 against 3, 5, 8, 2 has returned two combinations.
C9_Witness ==
    /\ fnCard = Card(ORO, 7)
    /\ fnTable = <<Card(ESPADA, 3), Card(BASTO, 5), Card(ORO, 10), Card(COPA, 2)>>
    /\ fnResult /= <<>>
    /\ Len(fnResult[1]) = 2

(***************************************************************************)
(* C10                                                                     *)
(***************************************************************************)
\* The state r that RunAction leaves is past the scoring of the current set.
ScoresSet(r) == r.IsEnded \/ r.RoundTurnPlayerID /= g.RoundTurnPlayerID

\* C10: an accepted action adds one to the mover's escoba count if and only
\* if it is a capture that leaves the table empty; otherwise it leaves the
\* mover's count alone, and it never changes the other player's count.  The
\* counts the throw leaves are those of the state after RunAction unless the
\* throw ends the set, and then they are the counts the set is scored with.
C10_EscobaIffTableCleared ==
    ~g.IsEnded =>
        \A a \in Offered(g) :
            IsPossible(a, g) =>
                LET p == Mover(g)
                    h == Run(a, World).g
                    r == RunAction(a, World).g
                    clears == /\ Len(a.CapturedTableCards) > 0
                              /\ Range(g.TableCards) \subseteq Range(a.CapturedTableCards)
                IN /\ clears => Len(g.TableCards) >= 1
                   /\ h.Escobas[p] = g.Escobas[p] + (IF clears THEN 1 ELSE 0)
                   /\ h.Escobas[OpponentOf(p)] = g.Escobas[OpponentOf(p)]
                   /\ IF ScoresSet(r)
                      THEN r.LastSetResults[1].EscobasThisSet = h.Escobas
                      ELSE r.Escobas = h.Escobas

\* A throw after the first round has just captured every card of the table.
C10_Witness ==
    /\ ~g.IsEnded
    /\ err = ""
    /\ Len(g.Actions) > 0
    /\ Len(LastAction.capturedTableCards) > 0
    /\ g.TableCards = <<>>
    /\ g.Escobas[LastOwner] >= 1
    /\ g.RoundNumber > 1

(***************************************************************************)
(* C11                                                                     *)
(***************************************************************************)
\* C11: a RunAction call that returns an error (the game has ended, or the
\* action is not possible) leaves every field of the game state as it was
\* before the call.
C11_ErrorLeavesStateUnchanged ==
    [][err' /= "" => g' = g]_vars

\* A submission has been refused as not possible in a running game.
C11_Witness ==
    /\ err = errActionNotPossible
    /\ ~g.IsEnded
    /\ g.RoundJustStarted

(***************************************************************************)
(* C12                                                                     *)
(***************************************************************************)
\* C12: once IsEnded is true, every RunAction call returns the game-is-ended
\* error and changes no field of the game state, so IsEnded, the scores, the
\* winner and the piles stay as they are.
C12_EndedIsFinal ==
    [][g.IsEnded => (g' = g /\ err' = errGameIsEnded)]_vars

\* A submission after the end of the game has been refused.
C12_Witness ==
    /\ g.IsEnded
    /\ err = errGameIsEnded
    /\ g.Scores[0] >= 15 \/ g.Scores[1] >= 15

(***************************************************************************)
(* C13                                                                     *)
(***************************************************************************)
\* scoreSet is about to be called: the set is finished and not yet scored.
ScoringDue == g.SetFinished /\ ~g.IsEnded

\* The winner that two final scores give.
WinnerOf(scores) ==
    IF scores[0] > scores[1] THEN 0 ELSE IF scores[1] > scores[0] THEN 1 ELSE -1

\* C13: when a set is scored and a cumulative score is 15 or more, the game
\* ends and the winner is the player with the strictly higher score, or -1
\* when the scores are equal; when both scores are below 15 the game does not
\* end and a new set begins; from 14-14, a set that gives player 0 one point
\* and player 1 none ends the game with player 0 as winner.
C13_GameEndAndWinner ==
    ScoringDue =>
        LET r == scoreSet(World).g
            awarded == r.LastSetResults[1].PointsAwarded
            total == [p \in Players |-> g.Scores[p] + awarded[p]]
        IN /\ r.Scores = total
           /\ (total[0] >= 15 \/ total[1] >= 15) =>
                 /\ r.IsEnded
                 /\ r.WinnerPlayerID = WinnerOf(total)
           /\ (total[0] < 15 /\ total[1] < 15) =>
                 /\ ~r.IsEnded
                 /\ r.WinnerPlayerID = -1
                 /\ r.SetJustStarted /\ ~r.SetFinished /\ r.RoundNumber = 1
                 /\ Len(r.Hands[0]) = 3 /\ Len(r.Hands[1]) = 3
                 /\ Len(r.deck) = 30
                 /\ Len(r.Piles[0]) + Len(r.Piles[1]) + Len(r.TableCards) = 4
           /\ (g.Scores[0] = 14 /\ g.Scores[1] = 14 /\ awarded[0] = 1 /\ awarded[1] = 0) =>
                 r.IsEnded /\ r.WinnerPlayerID = 0

\* The scenario has been scored: from 14-14 the set gave player 0 one point
\* and player 1 none, and the game is over with player 0 as winner.
C13_Witness ==
    /\ g.IsEnded
    /\ g.Scores[0] = 15 /\ g.Scores[1] = 14
    /\ g.LastSetResults[1].PointsAwarded[0] = 1
    /\ g.LastSetResults[1].PointsAwarded[1] = 0
    /\ g.WinnerPlayerID = 0

(***************************************************************************)
(* C14                                                                     *)
(***************************************************************************)
\* The pile player p is scored with: the leftover table cards go to the last
\* capturer.
ScoredPile(gs, p) ==
    IF p = gs.LastCapturerPlayerID THEN gs.Piles[p] \o gs.TableCards ELSE gs.Piles[p]

\* The capture values up to 7 that a pile holds in a suit.
LowValues(pile, suit) ==
    {GetEscobaValue(c) : c \in {d \in Range(pile) : d.Suit = suit /\ GetEscobaValue(d) <= 7}}

MaxOf(S) == CHOOSE x \in S : \A y \in S : y <= x

\* The setenta of the rules: the best value up to 7 of each suit, added up,
\* and nothing when a suit has no such card.
SetentaOf(pile) ==
    IF \E suit \in Range(Suits) : LowValues(pile, suit) = {} THEN 0
    ELSE MaxOf(LowValues(pile, ORO)) + MaxOf(LowValues(pile, COPA))
         + MaxOf(LowValues(pile, ESPADA)) + MaxOf(LowValues(pile, BASTO))

OrosIn(pile) == Cardinality({c \in Range(pile) : c.Suit = ORO})

\* The points of the rules for player p at the end of the set.
PointsOf(gs, p) ==
    LET mine == ScoredPile(gs, p)
        theirs == ScoredPile(gs, OpponentOf(p))
    IN gs.Escobas[p]
       + (IF Len(mine) > Len(theirs) THEN 1 ELSE 0)
       + (IF OrosIn(mine) > OrosIn(theirs) THEN 1 ELSE 0)
       + (IF Card(ORO, 7) \in Range(mine) THEN 1 ELSE 0)
       + (IF SetentaOf(mine) /= 0 /\ SetentaOf(mine) > SetentaOf(theirs) THEN 1 ELSE 0)

\* C14: the points scoreSet awards a player are the player's escobas of the
\* set, plus one for strictly more pile cards, one for strictly more oro
\* cards, one for the 7 of oro and one for a nonzero, strictly higher
\* setenta; a tie in a comparison gives that point to nobody; the points are
\* added to the cumulative scores.
C14_PointsAwarded ==
    ScoringDue =>
        LET r == scoreSet(World).g
            result == r.LastSetResults[1]
        IN \A p \in Players :
              /\ result.PointsAwarded[p] = PointsOf(g, p)
              /\ r.Scores[p] = g.Scores[p] + PointsOf(g, p)
              /\ result.CardCounts[0] = result.CardCounts[1] =>
                    PointsOf(g, p) <= g.Escobas[p] + 3
              /\ PointsOf(g, 0) + PointsOf(g, 1) <= g.Escobas[0] + g.Escobas[1] + 4

\* A set has been scored with equal card counts, equal oro counts and equal
\* nonzero setentas: player 0 got only an escoba point, player 1 only the
\* point of the 7 of oro.
C14_Witness ==
    /\ g.LastSetResults /= <<>>
    /\ g.LastSetResults[1].CardCounts[0] = g.LastSetResults[1].CardCounts[1]
    /\ g.LastSetResults[1].OroCardCounts[0] = g.LastSetResults[1].OroCardCounts[1]
    /\ g.LastSetResults[1].SetentaScores[0] = g.LastSetResults[1].SetentaScores[1]
    /\ g.LastSetResults[1].SetentaScores[0] > 0
    /\ g.LastSetResults[1].EscobasThisSet[0] = 1
    /\ g.LastSetResults[1].EscobasThisSet[1] = 0
    /\ g.LastSetResults[1].HasSieteDeOro[1]
    /\ g.LastSetResults[1].PointsAwarded[0] = 1
    /\ g.LastSetResults[1].PointsAwarded[1] = 1

LastThrowOfSet ==
    /\ ~g.IsEnded
    /\ Len(g.deck) = 0
    /\ Len(g.Hands[0]) + Len(g.Hands[1]) = 1

\* C16: when a set ends, the cards still on the table go to the pile of the
\* last capturer and the table is emptied, and the other player's pile is not
\* changed: the set is scored with these piles, and they are the piles of the
\* state when the game ends there.  While no capture and no initial escoba
\* has occurred in a set (both piles are empty), the last capturer is the
\* dealer of the set.
C16_LeftoverToLastCapturer ==
    /\ (~g.IsEnded /\ Len(g.Piles[0]) = 0 /\ Len(g.Piles[1]) = 0) =>
          g.LastCapturerPlayerID = g.RoundTurnPlayerID
    /\ LastThrowOfSet =>
          \A a \in Offered(g) :
              IsPossible(a, g) =>
                  LET h == Run(a, World).g
                      r == RunAction(a, World).g
                      result == r.LastSetResults[1]
                      taker == h.LastCapturerPlayerID
                      other == OpponentOf(taker)
                      awarded == h.Piles[taker] \o h.TableCards
                  IN /\ ScoresSet(r)
                     /\ result.CardCounts[taker] = Len(awarded)
                     /\ result.OroCardCounts[taker] = OrosIn(awarded)
                     /\ result.SetentaScores[taker] = SetentaOf(awarded)
                     /\ result.CardCounts[other] = Len(h.Piles[other])
                     /\ result.OroCardCounts[other] = OrosIn(h.Piles[other])
                     /\ result.CardCounts[0] + result.CardCounts[1] = 40
                     /\ r.IsEnded =>
                           /\ r.Piles[taker] = awarded
                           /\ r.Piles[other] = h.Piles[other]
                           /\ r.TableCards = <<>>

\* The game has ended on a set whose last throw went to the table and whose
\* last capturer was not the dealer: the table is empty and the two piles
\* hold the 40 cards.
C16_Witness ==
    /\ g.IsEnded
    /\ err = ""
    /\ LastAction.capturedTableCards = <<>>
    /\ g.LastCapturerPlayerID /= g.RoundTurnPlayerID
    /\ g.TableCards = <<>>
    /\ Len(g.Piles[0]) + Len(g.Piles[1]) = 40
    /\ g.LastSetResults[1].CardCounts[g.LastCapturerPlayerID]
          = Len(g.Piles[g.LastCapturerPlayerID])

(***************************************************************************)
(* C17                                                                     *)
(***************************************************************************)
\* C17: at the start of a set's first round, before any action of the set,
\* four cards have been dealt to the table; if their values add up to 15 the
\* dealer's pile holds the four cards, the dealer has one escoba and is the
\* last capturer, and the table is empty; if not, the table holds the four
\* cards, both piles are empty and both escoba counts are 0.
C17_InitialEscoba ==
    g.SetJustStarted =>
        LET dealer == g.RoundTurnPlayerID
            other == OpponentOf(dealer)
            dealt == g.Piles[dealer] \o g.TableCards
        IN /\ g.RoundNumber = 1
           /\ Len(dealt) = 4
           /\ g.Piles[other] = <<>>
           /\ g.Escobas[other] = 0
           /\ sumCards(dealt) = 15 =>
                 /\ g.Piles[dealer] = dealt
                 /\ g.Escobas[dealer] = 1
                 /\ g.LastCapturerPlayerID = dealer
                 /\ g.TableCards = <<>>
           /\ sumCards(dealt) /= 15 =>
                 /\ g.TableCards = dealt
                 /\ g.Piles[dealer] = <<>>
                 /\ g.Escobas[dealer] = 0

\* A set has started with four table cards that add up to 15: they are in
\* the dealer's pile and the table is empty.
C17_Witness ==
    /\ g.SetJustStarted
    /\ g.TableCards = <<>>
    /\ Len(g.Piles[g.RoundTurnPlayerID]) = 4
    /\ sumCards(g.Piles[g.RoundTurnPlayerID]) = 15
    /\ g.Escobas[g.RoundTurnPlayerID] = 1

(***************************************************************************)
(* C18                                                                     *)
(***************************************************************************)
\* C18: the state New returns has round number 1, IsEnded false, both scores
\* 0, WinnerPlayerID -1, three cards in each hand, player 0 as dealer and as
\* player to move, and either four cards on the table or none (initial
\* escoba).
C18_NewGame ==
    g /= NoState =>
        /\ g.RoundNumber = 1
        /\ ~g.IsEnded
        /\ g.Scores[0] = 0 /\ g.Scores[1] = 0
        /\ g.WinnerPlayerID = -1
        /\ Len(g.Hands[0]) = 3 /\ Len(g.Hands[1]) = 3
        /\ g.RoundTurnPlayerID = 0
        /\ g.TurnPlayerID = 0
        /\ Len(g.TableCards) \in {0, 4}
        /\ Len(g.TableCards) = 0 <=> g.Escobas[0] = 1

\* New has returned a game with an initial escoba: no card on the table.
C18_Witness ==
    /\ g /= NoState
    /\ g.RoundNumber = 1
    /\ Len(g.TableCards) = 0
    /\ Len(g.Piles[0]) = 4
    /\ Len(g.Hands[0]) = 3 /\ Len(g.Hands[1]) = 3

(***************************************************************************)
(* C19                                                                     *)
(***************************************************************************)
\* C19 as stated: after every accepted action that leaves the game running,
\* the player to move is the opponent of the player who performed the action,
\* so that no player acts twice in a row.
C19_TurnAlwaysPasses ==
    (Len(g.Actions) > 0 /\ ~g.IsEnded) => g.TurnPlayerID = OpponentOf(LastOwner)

\* C19 amended: after an accepted action that leaves the game running, the
\* player to move is the opponent of the player who performed the action,
\* unless the action was the last throw of a set: then a new set has started,
\* its dealer moves first, and that dealer is the player who performed the
\* action, who therefore acts twice in a row.
C19_TurnPassesWithinSet ==
    (Len(g.Actions) > 0 /\ ~g.IsEnded) =>
        IF g.SetJustStarted
        THEN g.TurnPlayerID = LastOwner /\ g.TurnPlayerID = g.RoundTurnPlayerID
        ELSE g.TurnPlayerID = OpponentOf(LastOwner)

\* The last throw of a set has been accepted, the game goes on, and the
\* player who made the throw moves first in the new set.
C19_Witness ==
    /\ Len(g.Actions) > 0
    /\ ~g.IsEnded
    /\ err = ""
    /\ g.SetJustStarted
    /\ g.RoundNumber = 1
    /\ g.TurnPlayerID = LastOwner

(***************************************************************************)
(* C20                                                                     *)
(***************************************************************************)
\* C20: the dealer (RoundTurnPlayerID) is player 0 until the first set has
\* been scored; a call that accepts the last throw of a set and leaves the
\* game running switches the dealer to the other player; every other call
\* leaves the dealer as it is.
C20_DealerAlternates ==
    [][/\ g.LastSetResults = <<>> => g.RoundTurnPlayerID = 0
       /\ IF LastThrowOfSet /\ Len(g'.Actions) > Len(g.Actions) /\ ~g'.IsEnded
          THEN /\ g'.RoundTurnPlayerID = OpponentOf(g.RoundTurnPlayerID)
               /\ g'.LastSetResults /= <<>>
               /\ g'.SetJustStarted
          ELSE g'.RoundTurnPlayerID = g.RoundTurnPlayerID]_vars

\* The third set of a game is being played: the dealer is player 0 again.
C20_Witness ==
    /\ ~g.IsEnded
    /\ Len(g.Actions) > 72
    /\ ~g.SetJustStarted
    /\ g.LastSetResults /= <<>>
    /\ g.RoundTurnPlayerID = 0

(***************************************************************************)
(* C21                                                                     *)
(***************************************************************************)
\* C21: when legal actions keep being applied while the game is running,
\* the game eventually reaches a state with IsEnded true.
C21_GameTerminates == <>(g.IsEnded)

\* A game has been played to its end: at least four sets were scored and a
\* player reached 15 points.
C21_Witness ==
    /\ g.IsEnded
    /\ Len(g.Actions) >= 144
    /\ (g.Scores[0] >= 15 \/ g.Scores[1] >= 15)

(***************************************************************************)
(* C22                                                                     *)
(***************************************************************************)
\* C22: when the game has ended both hands and the table are empty, the two
\* piles together hold each of the 40 cards once, no score is negative, and
\* WinnerPlayerID is the player with the higher score, or -1 when the scores
\* are equal.
C22_EndedState ==
    g.IsEnded =>
        /\ Len(g.Hands[0]) = 0 /\ Len(g.Hands[1]) = 0
        /\ Len(g.TableCards) = 0
        /\ Len(g.Piles[0]) + Len(g.Piles[1]) = 40
        /\ Range(g.Piles[0]) \cup Range(g.Piles[1]) = AllCards
        /\ g.Scores[0] >= 0 /\ g.Scores[1] >= 0
        /\ g.WinnerPlayerID = WinnerOf(g.Scores)

\* A game that player 1 won, the last cards of the table having gone to the
\* last capturer when the final set was scored.
C22_Witness ==
    /\ g.IsEnded
    /\ g.WinnerPlayerID = 1
    /\ g.Scores[1] > g.Scores[0]
    /\ Len(g.Piles[0]) > 0 /\ Len(g.Piles[1]) > 0

(***************************************************************************)
(* C23                                                                     *)
(***************************************************************************)
\* The game state read back from its own JSON document.
RoundTripState == UnmarshalGameState(MarshalGameState(g))

\* Every action a client may submit reads back from its document without
\* error as the same action: same name, thrown card and captured cards in
\* the same order.
ActionsRoundTrip ==
    \A a \in Offered(g) :
        \E d \in {DeserializeAction(SerializeAction(a))} :
            d.err = "" /\ d.action = <<a>>

BotChoices == {ChooseAction(g, rng).action} \cup ChooseActionBySort(g)

\* C24: the bot returns nil exactly when nothing is enumerated; what it
\* returns otherwise is one of the enumerated actions; and while the game has
\* not ended it returns an action, which RunAction accepts.
C24_BotChoosesEnumerated ==
    \E actions \in {CalculatePossibleActions(g)} :
        \A c \in BotChoices :
            /\ Len(c) = 0 <=> Len(actions) = 0
            /\ Len(c) > 0 => c[1] \in Range(actions)
            /\ ~g.IsEnded => /\ Len(c) > 0
                             /\ RunAction(c[1], World).err = ""

\* The bot has played, the mover has three or more actions with captures to
\* choose from, and the random bot's choice is not the first of them.
C24_Witness ==
    /\ ~g.IsEnded
    /\ Len(g.Actions) > 1
    /\ \E actions \in {CalculatePossibleActions(g)} :
          /\ Len(actions) >= 3
          /\ Len(actions[1].CapturedTableCards) > 0
          /\ ChooseAction(g, rng).action /= <<actions[1]>>
          /\ Cardinality(ChooseActionBySort(g)) >= 3

(***************************************************************************)
(* C25, C26                                                                *)
(***************************************************************************)
\* The sequence s without the card c, order kept.
Minus(s, c) == SelectSeq(s, LAMBDA x : x /= c)

\* C25: a legal capturing action, run on its own, takes the thrown card and
\* nothing else from the mover's hand, takes the declared cards and nothing
\* else from the table, appends the declared cards followed by the thrown
\* card to the mover's pile, keeps the thrown card off the table and makes
\* the mover the last capturer; the opponent's hand, pile and escoba count
\* and both scores stay as they were.
C25_CaptureFrame ==
    \A a \in Offered(g) :
        (~g.IsEnded /\ Len(a.CapturedTableCards) > 0 /\ IsPossible(a, g)) =>
            \E r \in {Run(a, World).g} :
                LET m == g.TurnPlayerID
                    o == OpponentOf(m)
                IN /\ r.Hands[m] = Minus(g.Hands[m], a.Card)
                   /\ Len(r.Hands[m]) = Len(g.Hands[m]) - 1
                   /\ Range(r.TableCards) = Range(g.TableCards) \ Range(a.CapturedTableCards)
                   /\ Len(r.TableCards) = Len(g.TableCards) - Len(a.CapturedTableCards)
                   /\ a.Card \notin Range(r.TableCards)
                   /\ r.Piles[m] = g.Piles[m] \o a.CapturedTableCards \o <<a.Card>>
                   /\ r.LastCapturerPlayerID = m
                   /\ r.Hands[o] = g.Hands[o]
                   /\ r.Piles[o] = g.Piles[o]
                   /\ r.Escobas[o] = g.Escobas[o]
                   /\ r.Scores = g.Scores

\* A capture of two or more cards has just been accepted from a player who
\* was not the last capturer before, and the mover can capture in turn.
C25_Witness ==
    /\ ~g.IsEnded
    /\ Len(g.Actions) > 1
    /\ Len(LastAction.capturedTableCards) > 1
    /\ g.LastCapturerPlayerID = LastOwner
    /\ Len(g.Piles[0]) > 0 /\ Len(g.Piles[1]) > 0
    /\ \E a \in Offered(g) : Len(a.CapturedTableCards) > 0 /\ IsPossible(a, g)

\* C26: a legal action that declares no capture, run on its own, moves the
\* thrown card from the mover's hand to the end of the table (one card less
\* in hand, one more on the table) and leaves both piles, both escoba counts,
\* the last capturer, the opponent's hand and both scores as they were.
C26_DiscardFrame ==
    \A a \in Offered(g) :
        (~g.IsEnded /\ Len(a.CapturedTableCards) = 0 /\ IsPossible(a, g)) =>
            \E r \in {Run(a, World).g} :
                LET m == g.TurnPlayerID
                    o == OpponentOf(m)
                IN /\ r.Hands[m] = Minus(g.Hands[m], a.Card)
                   /\ Len(r.Hands[m]) = Len(g.Hands[m]) - 1
                   /\ r.TableCards = Append(g.TableCards, a.Card)
                   /\ Len(r.TableCards) = Len(g.TableCards) + 1
                   /\ r.Piles = g.Piles
                   /\ r.Escobas = g.Escobas
                   /\ r.LastCapturerPlayerID = g.LastCapturerPlayerID
                   /\ r.Hands[o] = g.Hands[o]
                   /\ r.Scores = g.Scores

\* A throw without capture has just been accepted from the player who is not
\* the last capturer, and the mover has no capture either.
C26_Witness ==
    /\ ~g.IsEnded
    /\ Len(g.Actions) > 1
    /\ Len(LastAction.capturedTableCards) = 0
    /\ g.LastCapturerPlayerID /= LastOwner
    /\ Len(g.Piles[0]) > 0 /\ Len(g.Piles[1]) > 0
    /\ \E a \in Offered(g) : Len(a.CapturedTableCards) = 0 /\ IsPossible(a, g)

(***************************************************************************)
(* C27                                                                     *)
(***************************************************************************)
\* No card is left in either hand of gs.
HandsEmpty(gs) == Len(gs.Hands[0]) = 0 /\ Len(gs.Hands[1]) = 0

\* A round has just started in gs: both hands were dealt and nothing was
\* played since.
RoundDealt(gs) ==
    gs.RoundJustStarted /\ Len(gs.Hands[0]) = 3 /\ Len(gs.Hands[1]) = 3

\* C27 as stated: a legal action is followed by the start of a round exactly
\* when it leaves both hands empty and the deck holds six cards or more.
C27_RoundStartsOnlyWithDeck ==
    \A a \in Offered(g) :
        (~g.IsEnded /\ IsPossible(a, g)) =>
            \E ran \in {Run(a, World).g} : \E res \in {RunAction(a, World).g} :
                RoundDealt(res) <=> (HandsEmpty(ran) /\ Len(g.deck) >= 6)

\* C27: a legal action is followed by the start of a round exactly when it
\* leaves both hands empty and either the deck holds six cards or more or the
\* set that ends does not end the game.  With six cards or more in the deck
\* the next round of the same set starts: player 0 gets the first three
\* cards of the deck and player 1 the next three, and the table, both piles,
\* both escoba counts, the last capturer and the scores are as the throw
\* left them.  With the deck exhausted and the game going on, round 1 of a
\* new set starts from a fresh deck, the only round start that deals table
\* cards.  An action that leaves a card in hand deals nothing.
C27_RoundStart ==
    \A a \in Offered(g) :
        (~g.IsEnded /\ IsPossible(a, g)) =>
            \E ran \in {Run(a, World).g} : \E res \in {RunAction(a, World).g} :
                /\ RoundDealt(res) <=>
                       (HandsEmpty(ran) /\ (Len(g.deck) >= 6 \/ ~res.IsEnded))
                /\ (HandsEmpty(ran) /\ Len(g.deck) >= 6) =>
                       /\ res.RoundNumber = g.RoundNumber + 1
                       /\ ~res.SetJustStarted
                       /\ res.Hands[0] = SubSeq(g.deck, 1, 3)
                       /\ res.Hands[1] = SubSeq(g.deck, 4, 6)
                       /\ res.deck = SubSeq(g.deck, 7, Len(g.deck))
                       /\ res.TableCards = ran.TableCards
                       /\ res.Piles = ran.Piles
                       /\ res.Escobas = ran.Escobas
                       /\ res.LastCapturerPlayerID = ran.LastCapturerPlayerID
                       /\ res.Scores = ran.Scores
                /\ (HandsEmpty(ran) /\ Len(g.deck) < 6 /\ ~res.IsEnded) =>
                       /\ res.RoundNumber = 1
                       /\ res.SetJustStarted
                       /\ Len(res.deck) = 30
                       /\ Len(res.TableCards) + Len(res.Piles[res.RoundTurnPlayerID]) = 4
                /\ (HandsEmpty(ran) /\ res.IsEnded) => HandsEmpty(res)
                /\ ~HandsEmpty(ran) =>
                       /\ ~res.RoundJustStarted
                       /\ res.Hands = ran.Hands
                       /\ res.deck = g.deck
                       /\ res.RoundNumber = g.RoundNumber

\* A later round of a set has just been dealt after a throw that emptied the
\* hands: both piles and the table hold cards from the rounds before.
C27_Witness ==
    /\ ~g.IsEnded
    /\ RoundDealt(g)
    /\ g.RoundNumber >= 2
    /\ ~g.SetJustStarted
    /\ Len(g.Actions) >= 6
    /\ Len(g.TableCards) > 0
    /\ Len(g.Piles[0]) > 0 /\ Len(g.Piles[1]) > 0

(***************************************************************************)
(* C28                                                                     *)
(***************************************************************************)
\* C28: whenever a round has just been dealt and nothing was played since,
\* in the first round of a set as in the later ones, the player to move is
\* the dealer of the set, and the enumerated actions are that player's.
C28_DealerMovesFirst ==
    (RoundDealt(g) /\ ~g.IsEnded) =>
        /\ g.TurnPlayerID = g.RoundTurnPlayerID
        /\ g.PossibleActions = _serializeActions(CalculatePossibleActions(g))
        /\ \A i \in 1..Len(g.PossibleActions) :
              DeserializeCard(g.PossibleActions[i].card) \in Range(g.Hands[g.RoundTurnPlayerID])

\* Round 2 or later of a set dealt by player 1 has just started: the throw
\* before was player 0's, and player 1 is to move.
C28_Witness ==
    /\ ~g.IsEnded
    /\ RoundDealt(g)
    /\ g.RoundNumber >= 2
    /\ g.RoundTurnPlayerID = 1
    /\ LastOwner = 0
    /\ g.TurnPlayerID = 1

(***************************************************************************)
(* C29                                                                     *)
(***************************************************************************)
\* d is what is left of the deck e after cards were taken from its front.
IsRestOf(d, e) == Len(d) <= Len(e) /\ d = SubSeq(e, Len(e) - Len(d) + 1, Len(e))

\* The cards still in hand.
InHand(gs) == Len(gs.Hands[0]) + Len(gs.Hands[1])

\* C29: while the game has not ended the deck, the hands, the table and the
\* piles hold the 40 cards once each; the round number is between 1 and 6
\* and the deck holds 36 minus 6 times the round number cards; the number of
\* accepted actions of the set is six per round played less the cards still
\* in hand, so a set is six rounds and 36 accepted actions; an accepted
\* action leaves the deck as it is or takes six cards from its front, unless
\* it is the 36th of its set, after which a fresh deck has been dealt to 30
\* cards or the game has ended.  A game ends after a whole number of sets.
C29_DeckAndRounds ==
    /\ g.IsEnded => (Len(g.Actions) > 0 /\ Len(g.Actions) % 36 = 0)
    /\ ~g.IsEnded =>
        /\ g.RoundNumber \in 1..6
        /\ Len(g.deck) = 36 - 6 * g.RoundNumber
        /\ Len(g.Actions) % 36 = 6 * g.RoundNumber - InHand(g)
        /\ NoDuplicates(InPlay(g) \o g.deck)
        /\ Range(InPlay(g) \o g.deck) = AllCards
        /\ g.SetJustStarted => (g.RoundNumber = 1 /\ InHand(g) = 6)
        /\ \A a \in Offered(g) :
              IsPossible(a, g) =>
                  \E res \in {RunAction(a, World).g} :
                      IF Len(g.Actions) % 36 = 35
                      THEN /\ g.RoundNumber = 6
                           /\ res.IsEnded \/ (res.SetJustStarted /\ Len(res.deck) = 30)
                      ELSE /\ ~res.IsEnded /\ ~res.SetJustStarted
                           /\ IsRestOf(res.deck, g.deck)
                           /\ Len(g.deck) - Len(res.deck) =
                                  (IF InHand(g) = 1 THEN 6 ELSE 0)

\* The last card of the sixth round of a second or later set is about to be
\* thrown: the deck is exhausted and 35 actions of the set were accepted.
C29_Witness ==
    /\ ~g.IsEnded
    /\ g.RoundNumber = 6
    /\ Len(g.deck) = 0
    /\ InHand(g) = 1
    /\ Len(g.Actions) > 36
    /\ Len(g.Actions) % 36 = 35

(***************************************************************************)
(* C30                                                                     *)
(***************************************************************************)
\* s is the beginning of t.
IsPrefix(s, t) == Len(s) <= Len(t) /\ s = SubSeq(t, 1, Len(s))

\* C30: an accepted action that does not start a new set, a round boundary
\* included, leaves each pile with the cards it had, in place, possibly with
\* more after them, and no escoba count lower; the scores stay as they are
\* unless the action ends the game.  After an accepted action that starts a
\* new set nothing of the old piles, escobas and table is left: the piles,
\* the escoba counts and the table hold what the first deal of the new set
\* gave (four table cards, or, when these add up to 15, four cards in the
\* dealer's pile and one escoba for the dealer), and each score is the score
\* before plus the points of the set just scored.
C30_PilesWithinAndAcrossSets ==
    \A a \in Offered(g) :
        (~g.IsEnded /\ IsPossible(a, g)) =>
            \E res \in {RunAction(a, World).g} :
                IF res.SetJustStarted
                THEN LET d == res.RoundTurnPlayerID
                         o == OpponentOf(d)
                     IN /\ LastThrowOfSet
                        /\ Len(res.Piles[o]) = 0
                        /\ res.Escobas[o] = 0
                        /\ \/ /\ Len(res.TableCards) = 4
                              /\ Len(res.Piles[d]) = 0
                              /\ res.Escobas[d] = 0
                           \/ /\ Len(res.TableCards) = 0
                              /\ Len(res.Piles[d]) = 4
                              /\ res.Escobas[d] = 1
                        /\ Len(res.Piles[0]) < Len(g.Piles[0])
                           \/ Len(res.Piles[1]) < Len(g.Piles[1])
                        /\ \A p \in Players :
                              /\ res.Scores[p] =
                                     g.Scores[p] + res.LastSetResults[1].PointsAwarded[p]
                              /\ res.Scores[p] >= g.Scores[p]
                ELSE /\ \A p \in Players :
                           /\ IsPrefix(g.Piles[p], res.Piles[p])
                           /\ res.Escobas[p] >= g.Escobas[p]
                     /\ ~res.IsEnded => res.Scores = g.Scores
                     /\ res.IsEnded => LastThrowOfSet

\* A second or later set has just started: a score was carried over and
\* the piles of the set before are gone.
C30_Witness ==
    /\ ~g.IsEnded
    /\ g.SetJustStarted
    /\ g.LastSetResults /= <<>>
    /\ Len(g.Actions) >= 36
    /\ g.Scores[0] + g.Scores[1] > 0
    /\ Len(g.Piles[0]) + Len(g.Piles[1]) <= 4

(***************************************************************************)
(* C31                                                                     *)
(***************************************************************************)
\* C31: in every state left by New or by a RunAction call, while the game
\* has not ended RoundFinished and SetFinished are both false, a round is in
\* progress (it is one of rounds 1 to 6 and the player to move holds a card);
\* RoundFinished and SetFinished are both true exactly when the game has
\* ended, and then no card is in hand.
C31_TransitionsResolved ==
    /\ ~g.IsEnded =>
          /\ ~g.RoundFinished
          /\ ~g.SetFinished
          /\ g.RoundNumber \in 1..6
          /\ Len(g.Hands[g.TurnPlayerID]) > 0
          /\ InHand(g) > 0
    /\ g.IsEnded <=> (g.RoundFinished /\ g.SetFinished)
    /\ g.IsEnded => HandsEmpty(g)
    /\ g.RoundFinished <=> g.SetFinished

\* A round transition and a set transition have both been resolved: the
\* first round of a later set is in progress after some throws.
C31_Witness ==
    /\ ~g.IsEnded
    /\ g.LastSetResults /= <<>>
    /\ g.RoundNumber = 1
    /\ ~g.RoundJustStarted
    /\ InHand(g) < 6
    /\ ~g.RoundFinished /\ ~g.SetFinished

(***************************************************************************)
(* C32                                                                     *)
(***************************************************************************)
\* C32: the action history and the owner list have the same length; a
\* RunAction call that accepts its action leaves the history as it was with
\* the serialized action appended and the owner list as it was with the
\* player who was to move appended, at set boundaries as elsewhere; a call
\* that rejects its action leaves both as they were.
C32_HistoryAppendOnly ==
    /\ Len(g.Actions) = Len(g.ActionOwnerPlayerIDs)
    /\ \A a \in Offered(g) :
          \E res \in {RunAction(a, World)} :
              IF res.err = ""
              THEN /\ res.g.Actions = Append(g.Actions, SerializeAction(a))
                   /\ res.g.ActionOwnerPlayerIDs =
                          Append(g.ActionOwnerPlayerIDs, g.TurnPlayerID)
              ELSE /\ res.g.Actions = g.Actions
                   /\ res.g.ActionOwnerPlayerIDs = g.ActionOwnerPlayerIDs

\* The first throw of a second or later set has been recorded after the 36
\* or more entries of the sets before, its owner being the set's dealer.
C32_Witness ==
    /\ ~g.IsEnded
    /\ Len(g.Actions) > 36
    /\ Len(g.Actions) % 36 = 1
    /\ Len(g.ActionOwnerPlayerIDs) = Len(g.Actions)
    /\ LastOwner = g.RoundTurnPlayerID
    /\ DeserializeCard(LastAction.card) \notin Range(g.Hands[LastOwner])

(***************************************************************************)
(* C33                                                                     *)
(***************************************************************************)
\* C33: while the game has not ended the stored PossibleActions list is the
\* serialization of what CalculatePossibleActions returns for the state as
\* it is: same actions, in the same order.
C33_StoredActionsAreCurrent ==
    ~g.IsEnded =>
        \E actions \in {CalculatePossibleActions(g)} :
            /\ Len(g.PossibleActions) = Len(actions)
            /\ \A i \in 1..Len(actions) :
                  /\ g.PossibleActions[i] = SerializeAction(actions[i])
                  /\ DeserializeAction(g.PossibleActions[i]).action = <<actions[i]>>

\* After a throw within a round the list holds the captures of the player
\* now to move, whose hand differs in size from the other player's.
C33_Witness ==
    /\ ~g.IsEnded
    /\ ~g.RoundJustStarted
    /\ Len(g.Actions) > 36
    /\ Len(g.Hands[0]) /= Len(g.Hands[1])
    /\ Len(g.PossibleActions) >= 2
    /\ Len(g.PossibleActions[1].capturedTableCards) > 0

(***************************************************************************)
(* C34                                                                     *)
(***************************************************************************)
\* C34: the game has ended exactly when a score is 15 or more; while it has
\* not ended both scores are between 0 and 14 and WinnerPlayerID is -1.
C34_EndedIffFifteen ==
    /\ g.IsEnded <=> (g.Scores[0] >= 15 \/ g.Scores[1] >= 15)
    /\ ~g.IsEnded =>
          /\ g.Scores[0] \in 0..14
          /\ g.Scores[1] \in 0..14
          /\ g.WinnerPlayerID = -1

\* Three or more sets have been scored, a player has ten points or more and
\* the game goes on.
C34_Witness ==
    /\ ~g.IsEnded
    /\ Len(g.Actions) >= 108
    /\ (g.Scores[0] >= 10 \/ g.Scores[1] >= 10)
    /\ g.WinnerPlayerID = -1

(***************************************************************************)
(* C35                                                                     *)
(***************************************************************************)
\* The sum over both players of a recorded per-player count.
BothPlayers(m) == m[0] + m[1]

\* C35: a recorded set result has card counts that add up to 40, oro counts
\* that add up to 10, the 7 de oro with exactly one player, and points
\* awarded that add up to one or more; and the set result that the last
\* throw of a set leads to is such a result.
C35_ScoredSetTotals ==
    /\ \A i \in 1..Len(g.LastSetResults) :
          \E sr \in {g.LastSetResults[i]} :
              /\ BothPlayers(sr.CardCounts) = 40
              /\ BothPlayers(sr.OroCardCounts) = 10
              /\ sr.HasSieteDeOro[0] /= sr.HasSieteDeOro[1]
              /\ BothPlayers(sr.PointsAwarded) >= 1
    /\ LastThrowOfSet =>
          \A a \in Offered(g) :
              IsPossible(a, g) =>
                  \E res \in {RunAction(a, World).g} :
                      /\ res.LastSetResults /= g.LastSetResults
                      /\ BothPlayers(res.LastSetResults[1].CardCounts) = 40
                      /\ BothPlayers(res.LastSetResults[1].OroCardCounts) = 10
                      /\ BothPlayers(res.LastSetResults[1].PointsAwarded) >= 1

\* A set has just been scored in which cards were left on the table for the
\* last capturer, and the player with the 7 de oro had fewer cards.
C35_Witness ==
    /\ g.LastSetResults /= <<>>
    /\ (g.SetJustStarted \/ g.IsEnded)
    /\ \E p \in Players :
          /\ g.LastSetResults[1].HasSieteDeOro[p]
          /\ g.LastSetResults[1].CardCounts[p] < 20

(***************************************************************************)
(* C36                                                                     *)
(***************************************************************************)
\* C36: LastSetResults is nil exactly until the first set has been scored
\* (a set takes 36 accepted actions).  A call of RunAction that does not score
\* a set (a rejected action, an action within a set, any call after the end
\* of the game) leaves the scores and LastSetResults as they are.  The
\* accepted last throw of a set records one new set result, whose
\* EscobasThisSet are the escoba counts the throw left, and each player's
\* score becomes the score before plus the PointsAwarded of that result,
\* which are never negative.
C36_ScoresAndSetResults ==
    /\ (g.LastSetResults = <<>>) <=> (Len(g.Actions) < 36)
    /\ \A a \in Offered(g) :
          \E res \in {RunAction(a, World)} :
              IF res.err = "" /\ LastThrowOfSet
              THEN /\ Len(res.g.LastSetResults) = 1
                   /\ Len(res.g.Actions) % 36 = 0
                   /\ res.g.LastSetResults[1].EscobasThisSet = Run(a, World).g.Escobas
                   /\ \A p \in Players :
                         /\ res.g.LastSetResults[1].PointsAwarded[p] >= 0
                         /\ res.g.Scores[p] =
                                g.Scores[p] + res.g.LastSetResults[1].PointsAwarded[p]
                         /\ res.g.Scores[p] >= g.Scores[p]
              ELSE /\ res.g.Scores = g.Scores
                   /\ res.g.LastSetResults = g.LastSetResults

\* A later set has been scored: the recorded result is not the one of the
\* first set, it counts an escoba, and the scores hold more than its points.
C36_Witness ==
    /\ Len(g.Actions) >= 2 * 36
    /\ Len(g.Actions) % 36 = 0
    /\ g.LastSetResults /= <<>>
    /\ \E p \in Players :
          /\ g.LastSetResults[1].EscobasThisSet[p] > 0
          /\ g.Scores[p] > g.LastSetResults[1].PointsAwarded[p]

(***************************************************************************)
(* C37                                                                     *)
(***************************************************************************)
\* C37: while the game has not ended, each hand holds at most 3 cards, the
\* player to move holds a card, and the hand of the player to move has as
\* many cards as the other hand when the dealer is to move, and one card
\* more when the other player is to move.
C37_HandSizes ==
    ~g.IsEnded =>
        LET mover == g.TurnPlayerID
            other == OpponentOf(mover)
        IN /\ \A p \in Players : Len(g.Hands[p]) \in 0..3
           /\ Len(g.Hands[mover]) >= 1
           /\ Len(g.Hands[mover]) - Len(g.Hands[other]) =
                  IF mover = g.RoundTurnPlayerID THEN 0 ELSE 1

\* The player who is not the dealer is about to throw the last card of a
\* round of a later set, in which player 1 deals.
C37_Witness ==
    /\ ~g.IsEnded
    /\ Len(g.Actions) > 36
    /\ g.RoundTurnPlayerID = 1
    /\ g.TurnPlayerID = 0
    /\ Len(g.Hands[0]) = 1
    /\ Len(g.Hands[1]) = 0

(***************************************************************************)
(* C38                                                                     *)
(***************************************************************************)
\* Action a is e up to the order of its captured cards.
SameUpToOrder(a, e) ==
    /\ a.Name = e.Name
    /\ a.Card = e.Card
    /\ Len(a.CapturedTableCards) = Len(e.CapturedTableCards)
    /\ \A c \in Range(a.CapturedTableCards) \cup Range(e.CapturedTableCards) :
          Count(a.CapturedTableCards, c) = Count(e.CapturedTableCards, c)

\* Action a is, up to the order of its captured cards, one of the enumerated
\* actions of the state.
Enumerated(a, gs) ==
    \E e \in Range(CalculatePossibleActions(gs)) : SameUpToOrder(a, e)

\* C38 as stated: while the game has not ended, RunAction accepts an action
\* if and only if it is, up to the order of its captured cards, one of the
\* enumerated actions.
C38_ValidationIsEnumeration ==
    ~g.IsEnded =>
        \A a \in Offered(g) : (RunAction(a, World).err = "") <=> Enumerated(a, g)

(***************************************************************************)
(* C39                                                                     *)
(***************************************************************************)
\* The declared cards of a are right for its thrown card: nothing declared
\* and nothing to capture, or table cards that add up with the card to 15.
DeclaredFits(a, gs) ==
    IF Len(a.CapturedTableCards) = 0
    THEN Captures(a.Card, gs.TableCards) = {}
    ELSE /\ sumCards(a.CapturedTableCards) = 15 - GetEscobaValue(a.Card)
         /\ NoDuplicates(a.CapturedTableCards)
         /\ Range(a.CapturedTableCards) \subseteq Range(gs.TableCards)

\* C39: while the game has not ended, RunAction rejects every action whose
\* thrown card is not in the hand of the player to move, a card held by the
\* other player in particular, and leaves the state as it was.  An accepted
\* action takes its thrown card and no other out of the mover's hand and
\* takes no card out of the other player's hand: before any new deal the
\* other hand is as it was, and after the call it still holds every card it
\* held.
C39_OnlyTheMoversCard ==
    ~g.IsEnded =>
        LET mover == g.TurnPlayerID
            other == OpponentOf(mover)
        IN \A a \in Offered(g) :
              \E res \in {RunAction(a, World)} :
                  /\ a.Card \notin Range(g.Hands[mover]) =>
                        res.err = errActionNotPossible /\ res.g = g
                  /\ a.Card \in Range(g.Hands[other]) => res.err /= ""
                  /\ res.err = "" =>
                        \E ran \in {Run(a, World).g} :
                            /\ a.Card \in Range(g.Hands[mover])
                            /\ ran.Hands[mover] = Minus(g.Hands[mover], a.Card)
                            /\ ran.Hands[other] = g.Hands[other]
                            /\ Range(g.Hands[other]) \subseteq Range(res.g.Hands[other])
                            /\ Len(g.Hands[other]) > 0 =>
                                  /\ res.g.Hands[other] = g.Hands[other]
                                  /\ res.g.Hands[mover] = Minus(g.Hands[mover], a.Card)

\* After an accepted action, an action that names a card of the player who
\* is not to move, with declared cards that fit it, is refused, while an
\* action of the mover is accepted.
C39_Witness ==
    /\ ~g.IsEnded
    /\ err = ""
    /\ Len(g.Actions) > 0
    /\ \E a \in Inputs(g) :
          /\ a.Card \in Range(g.Hands[OpponentOf(g.TurnPlayerID)])
          /\ Len(a.CapturedTableCards) > 0
          /\ DeclaredFits(a, g)
          /\ RunAction(a, World).err = errActionNotPossible
    /\ \E a \in Inputs(g) : RunAction(a, World).err = ""

(***************************************************************************)
(* Specification of a long game.  rand.Shuffle may return any order of the *)
(* 40 cards; here the shuffle of every set returns LongDeck of the set's   *)
(* dealer, and the players throw the enumerated actions of LongScript.     *)
(***************************************************************************)
\* The deck of a set dealt by player 0 and of a set dealt by player 1.
LongDeck ==
    (0 :> << Card(BASTO, 4), Card(ESPADA, 6), Card(ESPADA, 4), Card(BASTO, 11),
          Card(BASTO, 10), Card(BASTO, 6), Card(ORO, 12), Card(COPA, 7),
          Card(BASTO, 7), Card(COPA, 11), Card(ESPADA, 11), Card(COPA, 10),
          Card(ORO, 4), Card(ESPADA, 1), Card(ESPADA, 7), Card(BASTO, 12),
          Card(COPA, 5), Card(BASTO, 5), Card(ORO, 5), Card(ESPADA, 3),
          Card(ORO, 10), Card(BASTO, 2), Card(COPA, 3), Card(ESPADA, 5),
          Card(COPA, 12), Card(ESPADA, 10), Card(ESPADA, 12), Card(COPA, 4),
          Card(ORO, 11), Card(ORO, 2), Card(COPA, 1), Card(BASTO, 1),
          Card(ORO, 7), Card(BASTO, 3), Card(COPA, 2), Card(COPA, 6),
          Card(ORO, 1), Card(ORO, 6), Card(ESPADA, 2), Card(ORO, 3) >>)
    @@
    (1 :> << Card(BASTO, 4), Card(ESPADA, 6), Card(BASTO, 12), Card(ORO, 3),
          Card(ESPADA, 10), Card(COPA, 5), Card(COPA, 1), Card(COPA, 4),
          Card(ESPADA, 7), Card(ORO, 7), Card(ORO, 12), Card(ESPADA, 5),
          Card(COPA, 2), Card(COPA, 6), Card(ESPADA, 1), Card(COPA, 7),
          Card(BASTO, 10), Card(ORO, 2), Card(BASTO, 7), Card(BASTO, 11),
          Card(ORO, 5), Card(BASTO, 1), Card(BASTO, 2), Card(ORO, 1),
          Card(COPA, 12), Card(ESPADA, 2), Card(BASTO, 3), Card(ORO, 6),
          Card(ORO, 4), Card(COPA, 3), Card(COPA, 10), Card(ESPADA, 11),
          Card(BASTO, 5), Card(ESPADA, 12), Card(BASTO, 6), Card(COPA, 11),
          Card(ESPADA, 3), Card(ORO, 11), Card(ORO, 10), Card(ESPADA, 4) >>)

\* The 36 throws of a set dealt by player 0 and of a set dealt by player 1.
LongScript ==
    (0 :> << newActionThrowCard(Card(ESPADA, 6), <<Card(COPA, 11)>>),
          newActionThrowCard(Card(BASTO, 10), <<Card(COPA, 7)>>),
          newActionThrowCard(Card(ESPADA, 4), <<>>),
          newActionThrowCard(Card(BASTO, 11), <<>>),
          newActionThrowCard(Card(BASTO, 4), <<Card(BASTO, 7), Card(ESPADA, 4)>>),
          newActionThrowCard(Card(BASTO, 6), <<Card(BASTO, 11)>>),
          newActionThrowCard(Card(COPA, 10), <<>>),
          newActionThrowCard(Card(ESPADA, 7), <<Card(COPA, 10)>>),
          newActionThrowCard(Card(ESPADA, 11), <<>>),
          newActionThrowCard(Card(ESPADA, 1), <<>>),
          newActionThrowCard(Card(ORO, 4), <<Card(ORO, 12), Card(ESPADA, 1)>>),
          newActionThrowCard(Card(BASTO, 12), <<>>),
          newActionThrowCard(Card(COPA, 5), <<Card(BASTO, 12)>>),
          newActionThrowCard(Card(BASTO, 2), <<>>),
          newActionThrowCard(Card(BASTO, 5), <<>>),
          newActionThrowCard(Card(ORO, 10), <<Card(BASTO, 2), Card(BASTO, 5)>>),
          newActionThrowCard(Card(ORO, 5), <<>>),
          newActionThrowCard(Card(ESPADA, 3), <<>>),
          newActionThrowCard(Card(COPA, 12), <<Card(ORO, 5)>>),
          newActionThrowCard(Card(ESPADA, 12), <<>>),
          newActionThrowCard(Card(ESPADA, 5), <<Card(ESPADA, 12)>>),
          newActionThrowCard(Card(ESPADA, 10), <<>>),
          newActionThrowCard(Card(COPA, 3), <<Card(ESPADA, 11), Card(ESPADA, 3)>>),
          newActionThrowCard(Card(COPA, 4), <<>>),
          newActionThrowCard(Card(COPA, 1), <<>>),
          newActionThrowCard(Card(BASTO, 3), <<Card(ESPADA, 10), Card(COPA, 4)>>),
          newActionThrowCard(Card(ORO, 2), <<>>),
          newActionThrowCard(Card(ORO, 7), <<>>),
          newActionThrowCard(Card(ORO, 11), <<>>),
          newActionThrowCard(Card(BASTO, 1), <<>>),
          newActionThrowCard(Card(COPA, 6), <<Card(ORO, 2), Card(ORO, 7)>>),
          newActionThrowCard(Card(ORO, 6), <<Card(ORO, 11)>>),
          newActionThrowCard(Card(ORO, 1), <<>>),
          newActionThrowCard(Card(ESPADA, 2), <<>>),
          newActionThrowCard(Card(COPA, 2), <<>>),
          newActionThrowCard(Card(ORO, 3), <<>>) >>)
    @@
    (1 :> << newActionThrowCard(Card(ESPADA, 10), <<Card(ORO, 7)>>),
          newActionThrowCard(Card(BASTO, 4), <<Card(COPA, 4), Card(ESPADA, 7)>>),
          newActionThrowCard(Card(ORO, 3), <<>>),
          newActionThrowCard(Card(BASTO, 12), <<>>),
          newActionThrowCard(Card(COPA, 5), <<Card(BASTO, 12)>>),
          newActionThrowCard(Card(ESPADA, 6), <<>>),
          newActionThrowCard(Card(COPA, 6), <<Card(ORO, 3), Card(ESPADA, 6)>>),
          newActionThrowCard(Card(ORO, 12), <<>>),
          newActionThrowCard(Card(COPA, 7), <<>>),
          newActionThrowCard(Card(ESPADA, 5), <<Card(ORO, 12)>>),
          newActionThrowCard(Card(ESPADA, 1), <<>>),
          newActionThrowCard(Card(COPA, 2), <<>>),
          newActionThrowCard(Card(ORO, 5), <<Card(COPA, 1), Card(COPA, 7), Card(COPA, 2)>>),
          newActionThrowCard(Card(BASTO, 7), <<>>),
          newActionThrowCard(Card(BASTO, 11), <<>>),
          newActionThrowCard(Card(BASTO, 10), <<Card(BASTO, 7)>>),
          newActionThrowCard(Card(BASTO, 1), <<>>),
          newActionThrowCard(Card(ORO, 2), <<>>),
          newActionThrowCard(Card(ORO, 6), <<Card(BASTO, 11)>>),
          newActionThrowCard(Card(ORO, 1), <<>>),
          newActionThrowCard(Card(BASTO, 3), <<>>),
          newActionThrowCard(Card(COPA, 12), <<Card(ESPADA, 1), Card(ORO, 1), Card(BASTO, 3)>>),
          newActionThrowCard(Card(ESPADA, 2), <<>>),
          newActionThrowCard(Card(BASTO, 2), <<>>),
          newActionThrowCard(Card(ESPADA, 11), <<Card(ORO, 2), Card(ESPADA, 2), Card(BASTO, 2)>>),
          newActionThrowCard(Card(COPA, 10), <<>>),
          newActionThrowCard(Card(ESPADA, 12), <<>>),
          newActionThrowCard(Card(ORO, 4), <<Card(BASTO, 1), Card(ESPADA, 12)>>),
          newActionThrowCard(Card(BASTO, 5), <<>>),
          newActionThrowCard(Card(COPA, 3), <<>>),
          newActionThrowCard(Card(ESPADA, 4), <<Card(COPA, 10), Card(COPA, 3)>>),
          newActionThrowCard(Card(COPA, 11), <<>>),
          newActionThrowCard(Card(ORO, 10), <<>>),
          newActionThrowCard(Card(BASTO, 6), <<Card(COPA, 11)>>),
          newActionThrowCard(Card(ORO, 11), <<>>),
          newActionThrowCard(Card(ESPADA, 3), <<>>) >>)

\* The state a call that has just started a set leaves when the shuffle of
\* that set returns cards: startNewSet resets and deals over whatever the
\* set before left, and the caller (New, or RunAction by way of
\* startNewRound and scoreSet) returns right after it.
WithDeck(w, cards) ==
    IF w.g.SetJustStarted /\ ~w.g.IsEnded THEN startNewSetDealt(w, cards) ELSE w

InitLong ==
    /\ \E w \in {WithDeck(New(1), LongDeck[0])} : g = w.g /\ rng = w.rng
    /\ err = ""
    /\ fnCard = Card(ORO, 7)
    /\ fnTable = <<>>
    /\ fnResult = <<>>

\* The player to move throws the enumerated action the script names.
ScriptedThrow ==
    /\ ~g.IsEnded
    /\ \E a \in Range(CalculatePossibleActions(g)) :
          /\ SameUpToOrder(a, LongScript[g.RoundTurnPlayerID][(Len(g.Actions) % 36) + 1])
          /\ \E r \in {RunAction(a, World)} :
                /\ err' = r.err
                /\ \E w \in {WithDeck([g |-> r.g, rng |-> r.rng],
                                      LongDeck[r.g.RoundTurnPlayerID])} :
                      g' = w.g /\ rng' = w.rng
    /\ UNCHANGED <<fnCard, fnTable, fnResult>>

NextLong == ScriptedThrow

SpecLong == InitLong /\ [][NextLong]_vars

====
